---- MODULE Spec2Model ----
(***************************************************************************)
(* A model of the CSV remediation pipeline of mica-register:               *)
(*   - the remediation policy        (backend/app/remediation/policy.py)   *)
(*   - the patch applicator          (backend/app/remediation/patch.py)    *)
(*   - the row identifier            (.../remediation/row_identifier.py)   *)
(*   - the LLM client with fallback  (.../remediation/llm_client.py)       *)
(*   - the cleaning engine           (backend/app/csv_clean.py)            *)
(*                                                                         *)
(* A Python str is a sequence of one-character strings.  Characters that   *)
(* have no printable ASCII form are written as tokens: "NL" (\n), "CR"     *)
(* (\r), "NBSP" (\xa0), "FFFD" (the Unicode replacement character), "sz"   *)
(* (the German sharp s), "oe" (o umlaut), "ue" (u umlaut).                 *)
(* A confidence is a whole number of hundredths (0.5 is 50).               *)
(***************************************************************************)
EXTENDS Integers, Sequences, FiniteSets, TLC

VARIABLES
    \* ---- policy: one call of RemediationPolicy.validate_proposal
    pol_call,        \* [proposal, current_value, column]: the arguments
    pol_result,      \* [called, accepted, reason]: what the call returned
    pol_auto,        \* [called, result]: what can_auto_apply returned for it
    \* ---- patch applicator: one run of apply_patch_with_tasks
    df,              \* PatchApplicator.df: the working table, a sequence of rows
    df_columns,      \* the header of the working table
    df_before,       \* the working table as it was loaded (before the run)
    tasks,           \* the tasks argument (generated from the loaded table)
    flags,           \* [require_approval, auto_apply_low_risk, threshold]
    n_proposals,     \* number of proposals of the patch processed so far
    cur_proposal,    \* the loop variable proposal: the proposal processed last
    applied_changes, \* the run's applied_changes list
    rejected_changes,\* the run's rejected_changes list
    errors,          \* the run's errors list
    writes,          \* history: every cell write, with the cell's value before it
    patch_pc,        \* "loop" while the for loop runs, "done" after the return
    \* ---- LLM client: one call of GeminiLLMClient.generate_patch
    models,          \* self.models: the candidate models, in fallback order
    llm_tasks,       \* the tasks argument
    model_idx,       \* how many models the outer loop has taken from the list
    task_idx,        \* how many tasks the inner loop has taken for this model
    used_model,      \* the local used_model (None before the first model)
    proposals,       \* the local proposals list
    calls,           \* history: every generate_content call: model, task, ok
    last_response,   \* what the generate_content call made last did
    llm_patch,       \* the RemediationPatch returned
    llm_pc,          \* "models", "tasks", "after", "returned" or "raised"
    \* scripts/clean_csv.py and CSVCleaner
    csv_file,        \* the table in the file the cleaner reads and writes
    cleaner_df,      \* CSVCleaner.df: <<>> for None, or <<the rows (column -> str)>>
    cleaner_changes, \* CSVCleaner.changes
    rows_before,     \* CSVCleaner.rows_before
    rows_after,      \* CSVCleaner.rows_after
    fixer_rows,      \* history: len(self.df) after each fixer of fix_all_issues
    report,          \* <<>>, or <<the report of generate_report>>
    clean_pass,      \* which run of clean_csv.py on the file this is
    clean_pc,        \* "new", "loaded", "load_failed", "fixed", "reported", "saved"
    \* ---- task generator: one call of RemediationTaskGenerator.generate_tasks
    gen_call,        \* [loads, df, columns, issues, max_tasks]: file and arguments
    gen_tasks,       \* the local tasks list
    gen_idx,         \* how many issues the outer loop has taken from the report
    gen_pc,          \* "loop" while the for loop runs, "returned" after the return
    \* ---- one stage of the cleaner or one check of the validator on a file
    stage_file,      \* the table in the file
    stage_op,        \* "loaded", then the name of the stage that ran
    stage_out        \* the cleaner's [df, changes], or the validator's issues

polVars == <<pol_call, pol_result, pol_auto>>
patchVars == <<df, df_columns, df_before, tasks, flags, n_proposals, cur_proposal,
               applied_changes, rejected_changes, errors, writes, patch_pc>>
llmVars == <<models, llm_tasks, model_idx, task_idx, used_model, proposals,
             calls, last_response, llm_patch, llm_pc>>
cleanVars == <<csv_file, cleaner_df, cleaner_changes, rows_before, rows_after,
               fixer_rows, report, clean_pass, clean_pc>>
genVars == <<gen_call, gen_tasks, gen_idx, gen_pc>>
stageVars == <<stage_file, stage_op, stage_out>>
vars == <<polVars, patchVars, llmVars, cleanVars, genVars, stageVars>>

-----------------------------------------------------------------------------
(* Python values *)

\* Python's None, where a str is expected
None == <<"<None>">>

\* pandas' NaN: the value of an empty cell of a table read with the default
\* na_filter (PatchApplicator.load_csv)
NaN == <<"<NaN>">>

\* pd.notna(v): row.get of a missing column gives None, which is not notna
notna(v) == v # NaN /\ v # None

\* the characters str.strip() and the regular expression \s treat as whitespace
IsSpace(c) == c \in {" ", "NL", "CR", "TAB", "NBSP"}

\* str.strip(): from the first to the last character that is not whitespace
strip(s) ==
    LET first[i \in 1..(Len(s) + 1)] ==
            IF i > Len(s) \/ ~IsSpace(s[i]) THEN i ELSE first[i + 1]
        last[i \in 0..Len(s)] ==
            IF i = 0 \/ ~IsSpace(s[i]) THEN i ELSE last[i - 1]
    IN  SubSeq(s, first[1], last[Len(s)])

\* str.rstrip('.')
RECURSIVE rstrip_dot(_)
rstrip_dot(s) ==
    IF s # <<>> /\ s[Len(s)] = "." THEN rstrip_dot(SubSeq(s, 1, Len(s) - 1)) ELSE s

\* str(v) of a cell value: a str is itself, NaN prints as "nan", None as "None"
str(v) ==
    IF v = NaN THEN <<"n", "a", "n">>
    ELSE IF v = None THEN <<"N", "o", "n", "e">>
    ELSE v

\* the idiom  str(row.get(col, '')).strip() if pd.notna(row.get(col)) else ''
stripped_cell(v) == IF notna(v) THEN strip(str(v)) ELSE <<>>

-----------------------------------------------------------------------------
(* Python str operations used by the cleaning engine.  Characters outside   *)
(* ASCII are written as tokens of more than one letter: "sz" (sharp s),     *)
(* "ae" "oe" "ue" "AE" "OE" "UE" (the umlauts), "FFFD" (the replacement    *)
(* character), "NBSP", and the characters of the mis-decoded sequences      *)
(* that fix_encoding_issues looks for: "A~" (A tilde), "a^" (a circumflex), *)
(* "i:" (i diaeresis), "cur" (currency sign), "pil" (pilcrow), "qtr" (one   *)
(* quarter), "half" (one half), "iq" (inverted question mark), "lq9" (low   *)
(* double quote), "ndash", "oelig", "Ydia", "euro", "tm", "tilde".          *)

UpperLetters ==
    <<"A", "B", "C", "D", "E", "F", "G", "H", "I", "J", "K", "L", "M",
      "N", "O", "P", "Q", "R", "S", "T", "U", "V", "W", "X", "Y", "Z">>

LowerLetters ==
    <<"a", "b", "c", "d", "e", "f", "g", "h", "i", "j", "k", "l", "m",
      "n", "o", "p", "q", "r", "s", "t", "u", "v", "w", "x", "y", "z">>

Digits == <<"0", "1", "2", "3", "4", "5", "6", "7", "8", "9">>

Range(f) == {f[i] : i \in DOMAIN f}

IndexOf(seq, c) == CHOOSE i \in DOMAIN seq : seq[i] = c

IsUpper(c) == c \in Range(UpperLetters)

\* [a-zA-Z]
IsLetter(c) == IsUpper(c) \/ c \in Range(LowerLetters)

\* \d and [0-9]
IsDigit(c) == c \in Range(Digits)

\* [a-zA-Z0-9]
IsAlnum(c) == IsLetter(c) \/ IsDigit(c)

\* str.lower()
lower(s) ==
    LET lower_char(c) ==
            IF IsUpper(c) THEN LowerLetters[IndexOf(UpperLetters, c)]
            ELSE CASE c = "AE" -> "ae"
                   [] c = "OE" -> "oe"
                   [] c = "UE" -> "ue"
                   [] OTHER -> c
    IN  [i \in 1..Len(s) |-> lower_char(s[i])]

\* the least number of a non-empty set of numbers
least(S) == CHOOSE m \in S : \A other \in S : m <= other

\* the concatenation of a sequence of sequences
RECURSIVE flatten(_)
flatten(seqs) ==
    IF seqs = <<>> THEN <<>>
    ELSE IF Len(seqs) = 1 THEN seqs[1]
    ELSE LET half == Len(seqs) \div 2
         IN  flatten(SubSeq(seqs, 1, half)) \o flatten(SubSeq(seqs, half + 1, Len(seqs)))

\* str.upper(): the sharp s becomes two letters
upper(s) ==
    LET upper_char(c) ==
            IF c \in Range(LowerLetters)
            THEN <<UpperLetters[IndexOf(LowerLetters, c)]>>
            ELSE CASE c = "ae" -> <<"AE">>
                   [] c = "oe" -> <<"OE">>
                   [] c = "ue" -> <<"UE">>
                   [] c = "sz" -> <<"S", "S">>
                   [] OTHER -> <<c>>
    IN  flatten([i \in 1..Len(s) |-> upper_char(s[i])])

\* a < b for two str, as sorted() compares them: by the code points of the
\* first characters that differ
str_less(a, b) ==
    LET \* the ASCII characters from the space to the tilde, in code point
        \* order (the grave accent written as a token)
        Ascii ==
            <<" ", "!", "\"", "#", "$", "%", "&", "'", "(", ")", "*", "+", ",", "-",
              ".", "/", "0", "1", "2", "3", "4", "5", "6", "7", "8", "9", ":", ";",
              "<", "=", ">", "?", "@", "A", "B", "C", "D", "E", "F", "G", "H", "I",
              "J", "K", "L", "M", "N", "O", "P", "Q", "R", "S", "T", "U", "V", "W",
              "X", "Y", "Z", "[", "\\", "]", "^", "_", "GRAVE", "a", "b", "c", "d", "e",
              "f", "g", "h", "i", "j", "k", "l", "m", "n", "o", "p", "q", "r", "s",
              "t", "u", "v", "w", "x", "y", "z", "{", "|", "}", "~">>
        \* ord(c)
        CodePoint(c) ==
            IF c \in Range(Ascii) THEN IndexOf(Ascii, c) + 31
            ELSE CASE c = "TAB" -> 9
                   [] c = "NL" -> 10
                   [] c = "CR" -> 13
                   [] c = "NBSP" -> 160
                   [] c = "cur" -> 164
                   [] c = "pil" -> 182
                   [] c = "qtr" -> 188
                   [] c = "half" -> 189
                   [] c = "iq" -> 191
                   [] c = "A~" -> 195
                   [] c = "AE" -> 196
                   [] c = "OE" -> 214
                   [] c = "UE" -> 220
                   [] c = "sz" -> 223
                   [] c = "a^" -> 226
                   [] c = "ae" -> 228
                   [] c = "i:" -> 239
                   [] c = "oe" -> 246
                   [] c = "ue" -> 252
                   [] c = "oelig" -> 339
                   [] c = "Ydia" -> 376
                   [] c = "tilde" -> 732
                   [] c = "ndash" -> 8211
                   [] c = "lq9" -> 8222
                   [] c = "euro" -> 8364
                   [] c = "tm" -> 8482
                   [] c = "FFFD" -> 65533
    IN  \E k \in 1..(Len(b)) :
            /\ k <= Len(a) + 1
            /\ \A j \in 1..(k - 1) : a[j] = b[j]
            /\ \/ k = Len(a) + 1
               \/ k <= Len(a) /\ CodePoint(a[k]) < CodePoint(b[k])

\* sorted(set_of_str)
RECURSIVE sorted(_)
sorted(S) ==
    IF S = {} THEN <<>>
    ELSE LET first == CHOOSE a \in S : \A b \in S \ {a} : str_less(a, b)
         IN  <<first>> \o sorted(S \ {first})

\* sep.join(parts)
RECURSIVE join(_, _)
join(sep, parts) ==
    IF parts = <<>> THEN <<>>
    ELSE IF Len(parts) = 1 THEN parts[1]
    ELSE parts[1] \o sep \o join(sep, Tail(parts))

\* s.startswith(prefix)
startswith(s, prefix) ==
    Len(prefix) <= Len(s) /\ SubSeq(s, 1, Len(prefix)) = prefix

\* s.endswith(suffix)
endswith(s, suffix) ==
    Len(suffix) <= Len(s) /\ SubSeq(s, Len(s) - Len(suffix) + 1, Len(s)) = suffix

\* the text from position i on, and whether sub is found at position i
from(s, i) == SubSeq(s, i, Len(s))

at(s, i, sub) == i + Len(sub) - 1 <= Len(s) /\ SubSeq(s, i, i + Len(sub) - 1) = sub

\* sub in s
contains(s, sub) == \E i \in 1..(Len(s) + 1) : at(s, i, sub)

\* s.find(sub), counted from 0; -1 when sub is not in s
find(s, sub) ==
    IF contains(s, sub)
    THEN (CHOOSE i \in 1..(Len(s) + 1) :
              at(s, i, sub) /\ \A j \in 1..(i - 1) : ~at(s, j, sub)) - 1
    ELSE -1

\* F(v), where v is computed once and F reads the computed value
on(v, F(_)) == CHOOSE r \in {F(x) : x \in {v}} : TRUE

\* s.replace(old, new) for a non-empty old: the occurrences from the left,
\* each search starting after the occurrence before
RECURSIVE replace(_, _, _)
replace(s, old, new) ==
    IF s = <<>> \/ ~contains(s, old) THEN s
    ELSE LET p == find(s, old)
         IN  SubSeq(s, 1, p) \o new \o replace(from(s, p + Len(old) + 1), old,
             new)

\* text.replace(old, new) for each <<old, new>> of pairs, one after the other
RECURSIVE replace_each(_, _)
replace_each(text, pairs) ==
    IF pairs = <<>> THEN text
    ELSE on(replace(text, pairs[1][1], pairs[1][2]),
            LAMBDA t : replace_each(t, Tail(pairs)))

\* s[:n]
prefix(s, n) == SubSeq(s, 1, IF Len(s) < n THEN Len(s) ELSE n)

\* the first position from i on whose character satisfies Is; Len(s) + 1 if none
next_where(s, i, Is(_)) ==
    CHOOSE j \in i..(Len(s) + 1) :
        /\ j > Len(s) \/ Is(s[j])
        /\ \A m \in i..(j - 1) : ~Is(s[m])

\* re.split of s on runs of the characters IsSep accepts: the pieces between
\* the runs, an empty piece where s starts or ends with a run
re_split(s, IsSep(_)) ==
    LET f[i \in 1..(Len(s) + 1)] ==
            LET j == next_where(s, i, IsSep)
            IN  IF j > Len(s) THEN <<SubSeq(s, i, Len(s))>>
                ELSE <<SubSeq(s, i, j - 1)>>
                     \o f[next_where(s, j, LAMBDA c : ~IsSep(c))]
    IN  f[1]

\* s.split(sep) for a one-character sep
split_char(s, sep) ==
    LET f[i \in 1..(Len(s) + 1)] ==
            LET j == next_where(s, i, LAMBDA c : c = sep)
            IN  IF j > Len(s) THEN <<SubSeq(s, i, Len(s))>>
                ELSE <<SubSeq(s, i, j - 1)>> \o f[j + 1]
    IN  f[1]

\* re.sub(r'\s+', ' ', s)
collapse_whitespace(s) ==
    flatten([i \in 1..Len(s) |->
                IF ~IsSpace(s[i]) THEN <<s[i]>>
                ELSE IF i < Len(s) /\ IsSpace(s[i + 1]) THEN <<>>
                ELSE <<" ">>])

-----------------------------------------------------------------------------
(* remediation/schemas.py and remediation/policy.py *)

TransformationType ==
    {"ENCODING_FIX", "COUNTRY_NORMALIZE", "WEBSITE_FIX", "DATE_FIX", "ADDRESS_FIX"}

RiskLevel == {"LOW", "MEDIUM", "HIGH"}

FORBIDDEN_COLUMNS == {"ae_lei"}

FORBIDDEN_TRANSFORMATIONS == {}

\* the fixed confidence floor of validate_proposal, in hundredths
CONFIDENCE_FLOOR == 50

is_allowed_transformation(transformation_type) ==
    transformation_type \notin FORBIDDEN_TRANSFORMATIONS

\* a column check that lets every column through
is_allowed_column_mut(column) == TRUE

is_allowed_column(column) == column \notin FORBIDDEN_COLUMNS

\* validate_proposal: the (is_valid, error_message) pair, as the code's chain
\* of early returns
validate_proposal(proposal, current_value, column) ==
    IF ~is_allowed_transformation(proposal.transformation_type)
    THEN [accepted |-> FALSE, reason |-> <<"Forbidden transformation type">>]
    ELSE IF ~is_allowed_column(column)
    THEN [accepted |-> FALSE, reason |-> <<"Forbidden column">>]
    ELSE IF column = "ae_lei"
            /\ rstrip_dot(strip(current_value))
                 # rstrip_dot(strip(proposal.proposed_value))
    THEN [accepted |-> FALSE, reason |-> <<"LEI value cannot be changed">>]
    ELSE IF proposal.confidence < CONFIDENCE_FLOOR
    THEN [accepted |-> FALSE, reason |-> <<"Confidence too low">>]
    ELSE [accepted |-> TRUE, reason |-> None]

\* an eligibility test that forgets the risk level
can_auto_apply_mut(proposal, auto_apply_confidence_threshold) ==
    proposal.confidence >= auto_apply_confidence_threshold

\* an eligibility test that refuses a confidence equal to the threshold
can_auto_apply_strict(proposal, auto_apply_confidence_threshold) ==
    proposal.risk_level = "LOW"
    /\ proposal.confidence > auto_apply_confidence_threshold

can_auto_apply(proposal, auto_apply_confidence_threshold) ==
    IF proposal.risk_level # "LOW" THEN FALSE
    ELSE IF proposal.confidence < auto_apply_confidence_threshold THEN FALSE
    ELSE TRUE

-----------------------------------------------------------------------------
(* remediation/row_identifier.py *)

\* row.get(col): the cell, or None when the table has no such column
row_get(row, col) == IF col \in DOMAIN row THEN row[col] ELSE None

\* an optional str of a RowIdentifier: the stripped cell, or None
optional_cell(v) == IF notna(v) THEN strip(str(v)) ELSE None

\* a Python truth test of an optional str
truthy(v) == v # None /\ v # <<>>

\* hashlib.sha256(key_string).hexdigest()[:16]: the digest stands for the
\* key fields it was computed from (no two keys of the model collide)
synthetic_id_of(row, row_index) ==
    <<"sha256", str(row_get(row, "ae_competentAuthority")), row_index>>

\* RowIdentifierGenerator.from_row
from_row(row, row_index) ==
    LET lei == optional_cell(row_get(row, "ae_lei"))
        competent_authority == optional_cell(row_get(row, "ae_competentAuthority"))
        service_country == optional_cell(row_get(row, "ac_serviceCode_cou"))
    IN  IF truthy(lei) /\ lower(lei) # <<"n", "a", "n">>
        THEN [lei |-> lei, competent_authority |-> competent_authority,
              service_country |-> service_country, synthetic_id |-> None]
        ELSE [lei |-> None, competent_authority |-> competent_authority,
              service_country |-> service_country,
              synthetic_id |-> synthetic_id_of(row, row_index)]

\* the rows i of the table with  df[col].astype(str).str.strip() == value
matching(table, rows, col, value) ==
    {i \in rows : strip(str(table[i][col])) = value}

\* RowIdentifierGenerator.find_row_by_identifier: [kind |-> "found", index]
\* with the row's position (1-based here, 0-based in the code), "None", or
\* "KeyError" when the table lacks a column the lookup reads
find_row_by_identifier(table, columns, identifier) ==
    IF ~truthy(identifier.lei) THEN [kind |-> "None", index |-> 0]
    ELSE IF "ae_lei" \notin columns THEN [kind |-> "KeyError", index |-> 0]
    ELSE LET matches == matching(table, DOMAIN table, "ae_lei", identifier.lei)
         IN  IF Cardinality(matches) = 1
             THEN [kind |-> "found", index |-> CHOOSE i \in matches : TRUE]
             ELSE IF Cardinality(matches) > 1
                     /\ truthy(identifier.competent_authority)
                     /\ truthy(identifier.service_country)
             THEN IF {"ae_competentAuthority", "ac_serviceCode_cou"} \subseteq columns
                  THEN LET both ==
                             matching(table, matches, "ae_competentAuthority",
                                      identifier.competent_authority)
                             \cap matching(table, matches, "ac_serviceCode_cou",
                                           identifier.service_country)
                       IN  IF Cardinality(both) = 1
                           THEN [kind |-> "found", index |-> CHOOSE i \in both : TRUE]
                           ELSE [kind |-> "None", index |-> 0]
                  ELSE [kind |-> "KeyError", index |-> 0]
             ELSE [kind |-> "None", index |-> 0]

-----------------------------------------------------------------------------
(* remediation/tasks.py: the tasks a patch run is given *)

\* the task generate_tasks builds for one (row, column) of the table it
\* loaded; row_index is kept in the task's metadata
make_task(task_id, table, row_index, column) ==
    [task_id |-> task_id,
     row_identifier |-> from_row(table[row_index], row_index),
     column |-> column,
     current_value |-> stripped_cell(row_get(table[row_index], column)),
     row_index |-> row_index]

\* generate_tasks skips a row whose target value is empty
RECURSIVE tasks_for(_, _, _)
tasks_for(table, targets, k) ==
    IF k > Len(targets) THEN <<>>
    ELSE LET t == make_task(<<"task", k>>, table, targets[k][1], targets[k][2])
         IN  (IF t.current_value = <<>> THEN <<>> ELSE <<t>>)
             \o tasks_for(table, targets, k + 1)

-----------------------------------------------------------------------------
(* remediation/tasks.py: RemediationTaskGenerator.generate_tasks.  A         *)
(* validation report is a sequence of issues [severity, code, column, rows,  *)
(* message]; an issue without a column has the empty column name.            *)

\* ISSUE_CODE_TO_TASK_TYPE: the issue codes it maps, each to its task type
ISSUE_CODE_TO_TASK_TYPE ==
    [code \in {"ENCODING_DATA_LOSS", "ENCODING_ISSUE", "ENCODING_SUSPECT",
               "DATE_UNPARSABLE", "DATE_NEEDS_NORMALIZATION",
               "COUNTRY_CODE_INVALID", "WEBSITE_MULTILINE", "MULTILINE_WEBSITE",
               "ADDRESS_PARSING_ISSUE", "MULTILINE_FIELD"} |->
        CASE code \in {"ENCODING_DATA_LOSS", "ENCODING_ISSUE", "ENCODING_SUSPECT"}
               -> "ENCODING_FIX"
          [] code \in {"DATE_UNPARSABLE", "DATE_NEEDS_NORMALIZATION"} -> "DATE_FIX"
          [] code = "COUNTRY_CODE_INVALID" -> "COUNTRY_NORMALIZE"
          [] code \in {"WEBSITE_MULTILINE", "MULTILINE_WEBSITE"} -> "WEBSITE_FIX"
          [] OTHER -> "ADDRESS_FIX"]

\* CONTEXT_COLUMNS_BY_TASK_TYPE
CONTEXT_COLUMNS_BY_TASK_TYPE ==
    [task_type \in {"ENCODING_FIX", "COUNTRY_NORMALIZE", "WEBSITE_FIX",
                    "DATE_FIX", "ADDRESS_FIX"} |->
        CASE task_type = "ENCODING_FIX" ->
               <<"ae_commercial_name", "ae_address", "ae_lei_name",
                 "ac_competentAuthority", "ac_comments">>
          [] task_type = "COUNTRY_NORMALIZE" ->
               <<"ae_homeMemberState", "ac_serviceCode_cou">>
          [] task_type = "WEBSITE_FIX" -> <<"ae_website", "ae_commercial_name">>
          [] task_type = "DATE_FIX" ->
               <<"ac_authorisationNotificationDate", "ac_authorisationEndDate",
                 "ac_lastupdate">>
          [] OTHER -> <<"ae_address", "ae_website", "ae_commercial_name">>]

\* TaskContext.validate_context_length: the context that the field validator
\* keeps; a context is the sequence of the dict's (key, value) items
validate_context_length(v) ==
    LET total[n \in 0..Len(v)] ==
            IF n = 0 THEN 0 ELSE total[n - 1] + Len(v[n][2])
        \* the first item with which the running length passes 2000
        k == CHOOSE n \in 1..Len(v) :
                 /\ total[n] > 2000
                 /\ \A m \in 1..(n - 1) : total[m] <= 2000
    IN  IF total[Len(v)] > 2000
        THEN SubSeq(v, 1, k - 1)
             \o << <<v[k][1], prefix(v[k][2], 2000 - total[k - 1])
                              \o <<".", ".", ".">> >> >>
        ELSE v

\* a row loop that takes every row of the issue: no cap of five, no
\* max_tasks test
generate_issue_tasks_mut(call, issue_index, tasks_before) ==
    LET issue == call.issues[issue_index]
    IN  tasks_before
        \o [j \in 1..Len(issue.rows) |->
              [task_id |-> <<"task", Len(tasks_before) + j>>,
               column |-> issue.column,
               current_value |-> <<"x">>,
               context |-> <<>>,
               metadata |-> [issue_code |-> issue.code,
                             row_number |-> 2, row_index |-> 0,
                             example |-> None, issue |-> issue_index]]]

\* lines 108-161: the tasks list after the loop over the rows of one issue;
\* a position of the table is the code's row_index + 1, a task id stands for
\* the fresh uuid4, metadata.issue is the position of the issue in the
\* report (history)
generate_issue_tasks(call, issue_index, tasks_before) ==
    LET issue == call.issues[issue_index]
        task_type == ISSUE_CODE_TO_TASK_TYPE[issue.code]
        rows == prefix(issue.rows, 5)
        context_data(row) ==
            LET context_columns == CONTEXT_COLUMNS_BY_TASK_TYPE[task_type]
                value(col) == stripped_cell(row_get(row, col))
            IN  flatten([i \in 1..Len(context_columns) |->
                    IF context_columns[i] \in call.columns
                    THEN << <<context_columns[i],
                              IF Len(value(context_columns[i])) > 500
                              THEN prefix(value(context_columns[i]), 500)
                                   \o <<".", ".", ".">>
                              ELSE value(context_columns[i])>> >>
                    ELSE <<>>])
        task(row_num, current_value, n) ==
            LET row == call.df[row_num - 1]
                data == context_data(row)
            IN  [task_id |-> <<"task", n>>,
                 task_type |-> task_type,
                 row_identifier |-> from_row(row, row_num - 2),
                 column |-> issue.column,
                 current_value |-> prefix(current_value, 1000),
                 issue_description |-> issue.message,
                 context |-> validate_context_length(
                     IF data = <<>>
                     THEN << <<issue.column, prefix(current_value, 500)>> >>
                     ELSE data),
                 severity |-> IF upper(issue.severity) = <<"E", "R", "R", "O", "R">>
                              THEN "ERROR" ELSE "WARNING",
                 metadata |-> [issue_code |-> issue.code, row_number |-> row_num,
                               row_index |-> row_num - 2, example |-> None,
                               issue |-> issue_index]]
        after[j \in 0..Len(rows)] ==
            IF j = 0 THEN tasks_before
            ELSE LET tasks_so_far == after[j - 1]
                     row_num == rows[j]
                     current_value ==
                         stripped_cell(row_get(call.df[row_num - 1], issue.column))
                 IN  IF Len(tasks_so_far) >= call.max_tasks THEN tasks_so_far
                     ELSE IF row_num - 2 < 0 \/ row_num - 2 >= Len(call.df)
                     THEN tasks_so_far
                     ELSE IF current_value = <<>> THEN tasks_so_far
                     ELSE Append(tasks_so_far,
                                 task(row_num, current_value,
                                      Len(tasks_so_far) + 1))
    IN  after[Len(rows)]

\* the longest report the model hands to generate_tasks
MaxIssues == 2

\* the calls of the model: a file that loads or not, the table read from it
\* (an empty cell is NaN), a report, and max_tasks
GenCalls ==
    LET long(n) == [i \in 1..n |-> "x"]
        Row(lei, name, address, comments) ==
            [ae_lei |-> lei, ae_lei_name |-> name, ae_commercial_name |-> name,
             ae_address |-> address, ae_website |-> <<"k", ".", "c", "o">>,
             ae_competentAuthority |-> <<"B", "a", "F", "i", "n">>,
             ac_serviceCode_cou |-> <<"D", "E">>,
             ac_authorisationNotificationDate |->
                 <<"0", "1", "/", "1", "2", "/", "2", "0", "2", "5">>,
             ac_comments |-> comments]
        Full ==
            << Row(<<"L", "1">>, <<"K">>, <<" ", "a", " ">>, <<"c">>),
               Row(<<"L", "2">>, <<"K">>, long(501), long(1001)),
               Row(<<"L", "3">>, long(600), long(600), long(600)),
               Row(NaN, <<"K">>, NaN, <<"c">>),
               Row(<<"L", "1">>, <<"K">>, <<"b">>, <<"c">>),
               Row(<<"L", "6">>, <<"K">>, <<"b">>, <<" ">>) >>
        Narrow ==
            << [ae_lei |-> <<"L", "1">>, ac_comments |-> long(501)],
               [ae_lei |-> NaN, ac_comments |-> <<"c">>] >>
        Issue(severity, code, column, rows) ==
            [severity |-> severity, code |-> code, column |-> column,
             rows |-> rows, message |-> <<"m">>]
        Issues ==
            { Issue(<<"E", "R", "R", "O", "R">>, "ENCODING_ISSUE", "ae_address",
                    <<2, 3, 4, 5, 6, 7>>),
              Issue(<<"W", "A", "R", "N", "I", "N", "G">>, "ENCODING_SUSPECT",
                    "ac_comments", <<2, 3, 4, 5, 6, 3>>),
              Issue(<<"W", "A", "R", "N", "I", "N", "G">>, "ENCODING_SUSPECT",
                    "ae_lei", <<2, 3>>),
              Issue(<<"w", "a", "r", "n", "i", "n", "g">>, "DATE_UNPARSABLE",
                    "ac_authorisationNotificationDate", <<1, 0, 2, 99>>),
              Issue(<<"I", "N", "F", "O">>, "ENCODING_ISSUE", "ae_address", <<2>>),
              Issue(<<"E", "R", "R", "O", "R">>, "LEI_INVALID_FORMAT", "ae_lei",
                    <<2>>),
              Issue(<<"E", "R", "R", "O", "R">>, "MULTILINE_FIELD", "", <<2>>),
              Issue(<<"E", "R", "R", "O", "R">>, "COUNTRY_CODE_INVALID",
                    "ae_missing", <<2>>) }
        Reports ==
            UNION {[1..n -> Issues] : n \in 0..MaxIssues}
    IN  [loads : {TRUE}, df : {Full}, columns : {DOMAIN Full[1]},
         issues : Reports, max_tasks : {0, 1, 6, 50}]
        \cup [loads : {TRUE}, df : {Narrow}, columns : {DOMAIN Narrow[1]},
              issues : Reports, max_tasks : {50}]
        \cup [loads : {TRUE}, df : {<<>>}, columns : {DOMAIN Full[1]},
              issues : Reports, max_tasks : {50}]
        \cup [loads : {FALSE}, df : {<<>>}, columns : {{}},
              issues : Reports, max_tasks : {50}]

\* generate_tasks is entered: lines 75-80
GenInit ==
    /\ gen_call \in GenCalls
    /\ gen_tasks = <<>>
    /\ gen_idx = 0
    /\ gen_pc = "loop"

\* one iteration of  for issue in issues  (lines 82-161)
ProcessIssue ==
    /\ gen_pc = "loop"
    /\ gen_call.loads
    /\ gen_idx < Len(gen_call.issues)
    /\ Len(gen_tasks) < gen_call.max_tasks
    /\ gen_idx' = gen_idx + 1
    /\ LET issue == gen_call.issues[gen_idx + 1]
       IN  gen_tasks' =
             IF upper(issue.severity) \notin
                    {<<"E", "R", "R", "O", "R">>,
                     <<"W", "A", "R", "N", "I", "N", "G">>}
             THEN gen_tasks
             ELSE IF issue.code \notin DOMAIN ISSUE_CODE_TO_TASK_TYPE
             THEN gen_tasks
             ELSE IF issue.column = "" THEN gen_tasks
             ELSE generate_issue_tasks(gen_call, gen_idx + 1, gen_tasks)
    /\ UNCHANGED <<gen_call, gen_pc>>

\* the loop ends or breaks, or the file did not load:  return tasks
ReturnTasks ==
    /\ gen_pc = "loop"
    /\ \/ ~gen_call.loads
       \/ gen_idx = Len(gen_call.issues)
       \/ Len(gen_tasks) >= gen_call.max_tasks
    /\ gen_pc' = "returned"
    /\ UNCHANGED <<gen_call, gen_tasks, gen_idx>>

GenIdle ==
    /\ gen_call = [loads |-> FALSE, df |-> <<>>, columns |-> {}, issues |-> <<>>,
                   max_tasks |-> 0]
    /\ gen_tasks = <<>> /\ gen_idx = 0 /\ gen_pc = "idle"

-----------------------------------------------------------------------------
(* remediation/patch.py: PatchApplicator.apply_patch_with_tasks *)

\* the default of auto_apply_confidence_threshold, in hundredths
DEFAULT_THRESHOLD == 90

\* the longest patch the model applies
MaxPatch == 2

PatchColumns ==
    {"ae_lei", "ae_competentAuthority", "ac_serviceCode_cou", "ae_address"}

\* the runs of the model: the table the tasks were generated from, the
\* (row, column) targets of the validation issues, and the table the patch
\* is applied to (the same file, or one whose header has no ae_lei)
PatchScenarios ==
    LET Row(lei, authority, country, address) ==
            [ae_lei |-> lei, ae_competentAuthority |-> authority,
             ac_serviceCode_cou |-> country, ae_address |-> address]
        \* a table without its ae_lei column
        without_lei(table) ==
            [i \in DOMAIN table |->
                [c \in PatchColumns \ {"ae_lei"} |-> table[i][c]]]
        TwoLeis ==
            << Row(<<"L", "1">>, <<"X">>, <<"D", "E">>, <<"a">>),
               Row(<<"L", "2">>, <<"Y">>, <<"F", "R">>, <<" ", "b">>) >>
        SharedLei ==
            << Row(<<"L", "1">>, <<"X">>, <<"D", "E">>, <<"a">>),
               Row(<<"L", "1">>, <<"Y">>, <<"D", "E">>, <<"b">>) >>
        NoLei ==
            << Row(NaN, <<"X">>, <<"D", "E">>, <<"a">>),
               Row(<<"L", "2">>, <<"Y">>, <<"F", "R">>, NaN) >>
    IN  { [gen |-> TwoLeis,
           targets |-> <<<<1, "ae_address">>, <<2, "ae_address">>>>,
           table |-> TwoLeis, columns |-> PatchColumns],
          [gen |-> SharedLei,
           targets |-> <<<<1, "ae_competentAuthority">>, <<2, "ae_address">>>>,
           table |-> SharedLei, columns |-> PatchColumns],
          [gen |-> SharedLei,
           targets |-> <<<<1, "ae_competentAuthority">>,
                         <<2, "ae_competentAuthority">>>>,
           table |-> SharedLei, columns |-> PatchColumns],
          [gen |-> NoLei,
           targets |-> <<<<1, "ae_address">>, <<2, "ae_competentAuthority">>,
                         <<2, "ae_address">>>>,
           table |-> NoLei, columns |-> PatchColumns],
          [gen |-> TwoLeis,
           targets |-> <<<<1, "ae_address">>, <<2, "ae_address">>>>,
           table |-> without_lei(TwoLeis),
           columns |-> PatchColumns \ {"ae_lei"}] }

\* the run whose tasks are all for ae_competentAuthority, the column the
\* lookup of a shared LEI reads: its patches relabel the rows
RelabelRun ==
    tasks # <<>>
    /\ \A k \in DOMAIN tasks : tasks[k].column = "ae_competentAuthority"

\* the proposals of the model: the task id is that of a task or of no task,
\* the transformation type is the one the prompt asks for, which the
\* applicator only copies into the audit record; in the relabelling run the
\* proposals are confident ones that carry a new authority or that of the
\* other row
Proposals ==
    IF RelabelRun
    THEN [task_id : {tasks[k].task_id : k \in DOMAIN tasks},
          proposed_value : { <<"c">>, <<"X">> },
          confidence : {90},
          risk_level : {"LOW"},
          transformation_type : {"ENCODING_FIX"}]
    ELSE [task_id : {tasks[k].task_id : k \in DOMAIN tasks}
                        \cup {<<"task", 0>>},
          proposed_value : { <<"c">>, <<"c", " ">> },
          confidence : {30, 50, 90},
          risk_level : {"LOW", "MEDIUM"},
          transformation_type : {"ENCODING_FIX"}]

\* the longest patch of a run: one proposal more when the tasks relabel
PatchLength == IF RelabelRun THEN MaxPatch + 1 ELSE MaxPatch

\* the value of the loop variable before the loop has bound it
NoProposal ==
    [task_id |-> <<"task", 0>>, proposed_value |-> <<>>, confidence |-> 0,
     risk_level |-> "LOW", transformation_type |-> "ENCODING_FIX"]

\* task_map = {task.task_id: task for task in tasks}: the ids it holds
task_map_has(task_id) == \E k \in DOMAIN tasks : tasks[k].task_id = task_id

\* task_map.get(task_id) of an id it holds: the dict keeps the last task
task_map_get(task_id) ==
    LET ks == {k \in DOMAIN tasks : tasks[k].task_id = task_id}
    IN  tasks[CHOOSE k \in ks : \A j \in ks : j <= k]

\* an assignment that sets the whole column:  df[column] = value
df_at_set_mut(table, row_index, column, value) ==
    [i \in DOMAIN table |->
        [c \in DOMAIN table[i] \cup {column} |->
            IF c = column THEN value ELSE table[i][c]]]

\* df.at[row_index, column] = value (a column the table lacks is added,
\* NaN in the other rows)
df_at_set(table, row_index, column, value) ==
    [i \in DOMAIN table |->
        [c \in DOMAIN table[i] \cup {column} |->
            IF i = row_index /\ c = column THEN value
            ELSE IF c \in DOMAIN table[i] THEN table[i][c] ELSE NaN]]

PatchInit ==
    /\ \E sc \in PatchScenarios :
         /\ df = sc.table
         /\ df_columns = sc.columns
         /\ df_before = sc.table
         /\ tasks = tasks_for(sc.gen, sc.targets, 1)
    /\ flags \in [require_approval : BOOLEAN, auto_apply_low_risk : BOOLEAN,
                  threshold : {DEFAULT_THRESHOLD}]
    /\ n_proposals = 0
    /\ cur_proposal = NoProposal
    /\ applied_changes = <<>>
    /\ rejected_changes = <<>>
    /\ errors = <<>>
    /\ writes = <<>>
    /\ patch_pc = "loop"

\* the gate of lines 168-173: whether the proposal needs manual approval
needs_approval(p) ==
    LET auto == IF flags.auto_apply_low_risk
                THEN can_auto_apply(p, flags.threshold)
                ELSE FALSE
    IN  flags.require_approval /\ ~auto

\* a rejection that is not recorded
Reject_mut(entry) ==
    UNCHANGED <<rejected_changes, df, df_columns, applied_changes, errors, writes>>

\* rejected_changes.append(entry); continue
Reject(entry) ==
    /\ rejected_changes' = Append(rejected_changes, entry)
    /\ UNCHANGED <<df, df_columns, applied_changes, errors, writes>>

\* one iteration of  for proposal in patch.tasks
ProcessProposal(p) ==
    /\ patch_pc = "loop"
    /\ n_proposals < PatchLength
    /\ n_proposals' = n_proposals + 1
    /\ cur_proposal' = p
    /\ UNCHANGED <<df_before, tasks, flags, patch_pc>>
    /\ LET task == task_map_get(p.task_id)
       IN  IF ~task_map_has(p.task_id)
           THEN Reject([task_id |-> p.task_id, reason |-> <<"Task not found">>])
           ELSE
           LET found == find_row_by_identifier(df, df_columns, task.row_identifier)
           IN  IF found.kind = "KeyError"
               THEN /\ errors' = Append(errors, <<"Error processing proposal",
                                                  p.task_id>>)
                    /\ UNCHANGED <<df, df_columns, applied_changes,
                                   rejected_changes, writes>>
               ELSE IF found.kind = "None"
               THEN Reject([task_id |-> p.task_id,
                            reason |-> <<"Row not found by identifier">>])
               ELSE
               LET row_index == found.index
                   current_value == stripped_cell(row_get(df[row_index], task.column))
                   verdict == validate_proposal(p, current_value, task.column)
               IN  IF ~verdict.accepted
                   THEN Reject([task_id |-> p.task_id, column |-> task.column,
                                current_value |-> current_value,
                                proposed_value |-> p.proposed_value,
                                reason |-> verdict.reason])
                   ELSE IF needs_approval(p)
                   THEN Reject([task_id |-> p.task_id, column |-> task.column,
                                current_value |-> current_value,
                                proposed_value |-> p.proposed_value,
                                reason |-> <<"Requires manual approval">>,
                                confidence |-> p.confidence,
                                risk_level |-> p.risk_level])
                   ELSE /\ df' = df_at_set(df, row_index, task.column,
                                           p.proposed_value)
                        /\ df_columns' = df_columns \cup {task.column}
                        /\ applied_changes' = Append(applied_changes,
                             [task_id |-> p.task_id, column |-> task.column,
                              row_index |-> row_index,
                              old_value |-> current_value,
                              new_value |-> p.proposed_value,
                              confidence |-> p.confidence,
                              transformation_type |-> p.transformation_type,
                              risk_level |-> p.risk_level])
                        /\ writes' = Append(writes,
                             [row_index |-> row_index, column |-> task.column,
                              before |-> row_get(df[row_index], task.column),
                              after |-> p.proposed_value,
                              task_row |-> task.row_index,
                              proposal |-> p])
                        /\ UNCHANGED <<rejected_changes, errors>>

\* the end of the loop and  return PatchApplyResult(...)
ReturnResult ==
    /\ patch_pc = "loop"
    /\ patch_pc' = "done"
    /\ UNCHANGED <<df, df_columns, df_before, tasks, flags, n_proposals, cur_proposal,
                   applied_changes, rejected_changes, errors, writes>>

\* the PatchApplyResult the run returns
PatchApplyResult ==
    [applied_count |-> Len(applied_changes),
     rejected_count |-> Len(rejected_changes),
     skipped_count |-> 0,
     applied_changes |-> applied_changes,
     rejected_changes |-> rejected_changes,
     errors |-> errors]

PatchIdle ==
    /\ df = <<>> /\ df_columns = {} /\ df_before = <<>> /\ tasks = <<>>
    /\ flags = [require_approval |-> TRUE, auto_apply_low_risk |-> FALSE,
                threshold |-> DEFAULT_THRESHOLD]
    /\ n_proposals = 0 /\ cur_proposal = NoProposal
    /\ applied_changes = <<>> /\ rejected_changes = <<>>
    /\ errors = <<>> /\ writes = <<>> /\ patch_pc = "idle"

PolicyIdle ==
    /\ pol_call = [proposal |-> [task_id |-> <<>>, proposed_value |-> <<>>,
                                 confidence |-> 0, risk_level |-> "LOW",
                                 transformation_type |-> "ENCODING_FIX"],
                   current_value |-> <<>>, column |-> "ae_lei",
                   threshold |-> DEFAULT_THRESHOLD]
    /\ pol_result = [called |-> FALSE, accepted |-> FALSE, reason |-> None]
    /\ pol_auto = [called |-> FALSE, result |-> FALSE]

-----------------------------------------------------------------------------
(* import_csv.py: fix_encoding_issues (csv_clean.py's fix_text_encoding) *)

\* the replacement character, and the three characters it reads as when its
\* UTF-8 bytes are decoded as Latin-1
ReplacementChar == <<"FFFD">>

ReplacementBytes == <<"i:", "iq", "half">>

\* replacement_chars, the empty str included
replacement_chars == <<ReplacementChar, ReplacementBytes, <<>>>>

\* lines 142-158: the repairs around one rep_char
fix_words_around(text, rep_char) ==
    LET word_repairs ==
        << <<<<"S", "t", "r", "a">> \o rep_char \o <<"e">>, <<"S", "t", "r", "a",
            "sz", "e">>>>,
           <<<<"s", "t", "r", "a">> \o rep_char \o <<"e">>, <<"s", "t", "r", "a",
               "sz", "e">>>>,
           <<<<"L">> \o rep_char \o <<"w">>, <<"L", "oe", "w">>>>,
           <<<<"l">> \o rep_char \o <<"w">>, <<"l", "oe", "w">>>> >>
    IN  on(replace_each(text, word_repairs),
           LAMBDA d :
              IF /\ contains(d, <<"M">> \o rep_char \o <<"n">>)
                 /\ (contains(d, <<"c", "h", "e", "n">>) \/ contains(d, <<"s", "t",
                     "e", "r">>))
              THEN replace(d, <<"M">> \o rep_char \o <<"n">>, <<"M", "ue", "n">>)
              ELSE d)

\* for rep_char in rep_chars: fix_words_around
RECURSIVE fix_words_each(_, _)
fix_words_each(text, rep_chars) ==
    IF rep_chars = <<>> THEN text
    ELSE on(fix_words_around(text, rep_chars[1]),
            LAMBDA t : fix_words_each(t, Tail(rep_chars)))

\* the last position of the content of a match of \(<rep>First Rest{MinMore,}?
\* <rep>\) that starts at i, or 0
quoted_end(text, rep, i, First(_), Rest(_), MinMore) ==
    IF ~at(text, i, <<"(">> \o rep) \/ i + 1 + Len(rep) > Len(text) THEN 0
    ELSE on({k \in (i + 1 + Len(rep) + MinMore)..Len(text) :
                /\ First(text[i + 1 + Len(rep)])
                /\ \A m \in (i + 2 + Len(rep))..k : Rest(text[m])
                /\ at(text, k + 1, rep \o <<")">>)},
            LAMBDA ends : IF ends = {} THEN 0 ELSE least(ends))

sub_quoted(text, rep, First(_), Rest(_), MinMore) ==
    LET f[i \in 1..(Len(text) + 1)] ==
            on({j \in i..Len(text) :
                   quoted_end(text, rep, j, First, Rest, MinMore) # 0},
               LAMBDA starts :
                  IF starts = {} THEN SubSeq(text, i, Len(text))
                  ELSE on(quoted_end(text, rep, least(starts), First, Rest,
                      MinMore),
                          LAMBDA k :
                             SubSeq(text, i, least(starts) - 1) \o <<"(", "\"">>
                             \o SubSeq(text, least(starts) + 1 + Len(rep), k)
                             \o <<"\"", ")">> \o f[k + Len(rep) + 2]))
    IN  f[1]

\* lines 184-194: the quotation mark repair for one non-empty rep_char
fix_quotes_around(text, rep_char) ==
    on(sub_quoted(text, rep_char, IsLetter,
        LAMBDA c : IsAlnum(c) \/ IsSpace(c), 1),
       LAMBDA a :
          IF contains(a, rep_char) /\ contains(a, <<"(">>) /\ contains(a,
              <<")">>)
          THEN sub_quoted(a, rep_char, LAMBDA c : c # ")", LAMBDA c : c # ")",
              0)
          ELSE a)

\* for rep_char in rep_chars: fix_quotes_around
RECURSIVE fix_quotes_each(_, _)
fix_quotes_each(text, rep_chars) ==
    IF rep_chars = <<>> THEN text
    ELSE on(fix_quotes_around(text, rep_chars[1]),
            LAMBDA t : fix_quotes_each(t, Tail(rep_chars)))

\* fix_encoding_issues(text) for a str
fix_text_encoding(text) ==
    LET \* lines 160-181: the words that lost a character, and the UTF-8 umlauts
        \* read as Latin-1
        known_repairs ==
        << <<<<"S", "t", "r", "a", "e">>, <<"S", "t", "r", "a", "sz", "e">>>>,
            <<<<"s", "t", "r", "a", "e">>, <<"s", "t", "r", "a", "sz", "e">>>>,
           <<<<"L", "w">>, <<"L", "oe", "w">>>>, <<<<"l", "w">>, <<"l", "oe",
               "w">>>>,
           <<<<"S", "t", "r", "a", "s", "s", "e">>, <<"S", "t", "r", "a", "sz",
               "e">>>>,
           <<<<"A~", "cur">>, <<"ae">>>>, <<<<"A~", "pil">>, <<"oe">>>>,
           <<<<"A~", "qtr">>, <<"ue">>>>, <<<<"A~", "lq9">>, <<"AE">>>>,
           <<<<"A~", "ndash">>, <<"OE">>>>, <<<<"A~", "oelig">>, <<"UE">>>>,
           <<<<"A~", "Ydia">>, <<"sz">>>> >>
        \* lines 197-200: the quotation marks read as Latin-1
        quote_repairs ==
        << <<<<"a^", "euro", "oelig">>, <<"\"">> >>, <<<<"a^", "euro">>,
            <<"\"">> >>,
           <<<<"a^", "euro", "tm">>, <<"'">>>>, <<<<"a^", "euro", "tilde">>,
               <<"'">>>> >>
    IN  on(fix_words_each(text, replacement_chars), LAMBDA words :
        on(replace_each(words, known_repairs), LAMBDA known :
        on(fix_quotes_each(known, SubSeq(replacement_chars, 1, 2)), LAMBDA quotes :
           replace_each(quotes, quote_repairs))))

-----------------------------------------------------------------------------
(* import_csv.py: parse_date, with datetime.strptime and date.strftime *)

\* \d{n} at position p
digits_at(s, p, n) ==
    p + n - 1 <= Len(s) /\ \A m \in p..(p + n - 1) : IsDigit(s[m])

\* where the text between \d{2}/\d{2} and \d{4} ends if it starts at p, or 0:
\*   kind 1:  /\s*\.\s*     kind 2:  \.     kind 3:  \s+\.\s*
\*   kind 4:  /\.\s*   (csv_validate.classify_date)
dot_end(s, p, kind) ==
    LET \* the first position from q on that holds no whitespace
        skip_spaces(q) == next_where(s, q, LAMBDA c : ~IsSpace(c))
        \* where \.\s* ends if it starts at q, or 0
        after_dot(q) ==
            IF q <= Len(s) /\ s[q] = "." THEN skip_spaces(q + 1) ELSE 0
    IN  IF p > Len(s) THEN 0
        ELSE IF kind = 1
        THEN (IF s[p] = "/" THEN after_dot(skip_spaces(p + 1)) ELSE 0)
        ELSE IF kind = 2
        THEN (IF s[p] = "." THEN p + 1 ELSE 0)
        ELSE IF kind = 4
        THEN (IF s[p] = "/" THEN after_dot(p + 1) ELSE 0)
        ELSE IF IsSpace(s[p]) THEN after_dot(skip_spaces(p)) ELSE 0

\* re.sub(r'(\d{2}/\d{2})<kind>(\d{4})', r'\1/\2', s)
sub_date_dot(s, kind) ==
    LET \* where the \d{4} of a match at i starts, or 0
        year_start(i) ==
            IF digits_at(s, i, 2) /\ at(s, i + 2, <<"/">>) /\ digits_at(s,
                i + 3, 2)
            THEN on(dot_end(s, i + 5, kind),
                    LAMBDA r : IF r # 0 /\ digits_at(s, r, 4) THEN r ELSE 0)
            ELSE 0
        f[i \in 1..(Len(s) + 1)] ==
            on({j \in i..Len(s) : year_start(j) # 0}, LAMBDA starts :
               IF starts = {} THEN SubSeq(s, i, Len(s))
               ELSE on(year_start(least(starts)), LAMBDA r :
                       SubSeq(s, i, least(starts) + 4) \o <<"/">>
                       \o SubSeq(s, r, r + 3) \o f[r + 4]))
    IN  f[1]

\* the number a str of digits writes
RECURSIVE int_of(_)
int_of(s) ==
    IF s = <<>> THEN 0
    ELSE 10 * int_of(SubSeq(s, 1, Len(s) - 1)) + IndexOf(Digits, s[Len(s)]) - 1

\* the None of an Optional[date]: no date has the year 0
NoDate == [year |-> 0, month |-> 0, day |-> 0]

\* datetime.strptime(s, fmt).date(), or NoDate where it raises ValueError
strptime(s, fmt) ==
    LET \* %d: 3[0-1]|[1-2]\d|0[1-9]|[1-9]| [1-9]
        day_field(d) ==
            \/ Len(d) = 1 /\ IsDigit(d[1]) /\ d[1] # "0"
            \/ /\ Len(d) = 2
               /\ \/ d[1] = "3" /\ d[2] \in {"0", "1"}
                  \/ d[1] \in {"1", "2"} /\ IsDigit(d[2])
                  \/ d[1] \in {"0", " "} /\ IsDigit(d[2]) /\ d[2] # "0"
        \* %m: 1[0-2]|0[1-9]|[1-9]
        month_field(m) ==
            \/ Len(m) = 1 /\ IsDigit(m[1]) /\ m[1] # "0"
            \/ /\ Len(m) = 2
               /\ \/ m[1] = "1" /\ m[2] \in {"0", "1", "2"}
                  \/ m[1] = "0" /\ IsDigit(m[2]) /\ m[2] # "0"
        \* %Y: \d\d\d\d
        year_field(y) == Len(y) = 4 /\ \A i \in 1..4 : IsDigit(y[i])
        is_leap(year) == year % 4 = 0 /\ (year % 100 # 0 \/ year % 400 = 0)
        days_in_month(year, month) ==
            IF month = 2 THEN (IF is_leap(year) THEN 29 ELSE 28)
            ELSE IF month \in {4, 6, 9, 11} THEN 30 ELSE 31
        \* date(year, month, day), NoDate where the constructor raises ValueError
        make_date(year, month, day) ==
            IF year >= 1 /\ day <= days_in_month(year, month)
            THEN [year |-> year, month |-> month, day |-> day]
            ELSE NoDate
        \* the year, month and day fields of the three parts of a date in fmt
        date_fields(parts) ==
            IF fmt = "%d/%m/%Y" THEN <<parts[3], parts[2], parts[1]>>
            ELSE IF fmt = "%Y-%m-%d" THEN <<parts[1], parts[2], parts[3]>>
            ELSE <<parts[3], parts[1], parts[2]>>
    IN  on(split_char(s, IF fmt = "%Y-%m-%d" THEN "-" ELSE "/"), LAMBDA parts :
           IF Len(parts) # 3 THEN NoDate
           ELSE on(date_fields(parts), LAMBDA ymd :
                   IF year_field(ymd[1]) /\ month_field(ymd[2]) /\ day_field(ymd[3])
                   THEN make_date(int_of(ymd[1]), int_of(ymd[2]),
                                  int_of(SelectSeq(ymd[3], IsDigit)))
                   ELSE NoDate))

\* lines 51-62: the first format of formats that parses s
RECURSIVE try_formats(_, _)
try_formats(s, formats) ==
    IF formats = <<>> THEN NoDate
    ELSE on(strptime(s, Head(formats)), LAMBDA parsed :
            IF parsed # NoDate THEN parsed ELSE try_formats(s, Tail(formats)))

\* parse_date(date_str, date_format) for a str: the three substitutions of
\* lines 43-47, one after the other, then date_format and after it the
\* fallback formats other than it
parse_date(date_str, date_format) ==
    IF date_str = <<>> \/ strip(date_str) = <<>> THEN NoDate
    ELSE on(sub_date_dot(strip(date_str), 1), LAMBDA slash_dot :
         on(sub_date_dot(slash_dot, 2), LAMBDA dot :
         on(rstrip_dot(sub_date_dot(dot, 3)), LAMBDA cleaned :
            try_formats(cleaned,
                        <<date_format>>
                        \o SelectSeq(<<"%d/%m/%Y", "%Y-%m-%d", "%m/%d/%Y">>,
                                     LAMBDA fmt : fmt # date_format)))))

\* str(n) for a natural number
RECURSIVE decimal(_)
decimal(n) ==
    IF n < 10 THEN <<Digits[n + 1]>>
    ELSE decimal(n \div 10) \o <<Digits[(n % 10) + 1]>>

\* date.strftime(fmt): %d and %m in two digits, %Y as the C library writes it
strftime(date, fmt) ==
    LET two_digits(n) == <<Digits[(n \div 10) + 1], Digits[(n % 10) + 1]>>
    IN  IF fmt = "%d/%m/%Y"
        THEN two_digits(date.day) \o <<"/">> \o two_digits(date.month)
             \o <<"/">> \o decimal(date.year)
        ELSE IF fmt = "%Y-%m-%d"
        THEN decimal(date.year) \o <<"-">> \o two_digits(date.month)
             \o <<"-">> \o two_digits(date.day)
        ELSE two_digits(date.month) \o <<"/">> \o two_digits(date.day)
             \o <<"/">> \o decimal(date.year)

-----------------------------------------------------------------------------
(* import_csv.py: is_url, fix_address_website_parsing,
      normalize_commercial_name,
   parse_pipe_separated, normalize_service_code; config/constants.py *)

\* is_url(value) for a str or None
is_url(value) ==
    LET \* re.match(r'^[a-zA-Z0-9][a-zA-Z0-9-]*[a-zA-Z0-9]*\.[a-zA-Z]{2,}', s)
        domain_pattern(s) ==
            /\ s # <<>> /\ IsAlnum(s[1])
            /\ LET dot == CHOOSE j \in 2..(Len(s) + 1) :
                              /\ j > Len(s) \/ ~(IsAlnum(s[j]) \/ s[j] = "-")
                              /\ \A m \in 2..(j - 1) : IsAlnum(s[m]) \/ s[m] = "-"
               IN  /\ dot + 2 <= Len(s)
                   /\ s[dot] = "."
                   /\ IsLetter(s[dot + 1]) /\ IsLetter(s[dot + 2])
        value_str == strip(value)
    IN  IF value = None \/ value = <<>> THEN FALSE
        ELSE IF value_str = <<>> THEN FALSE
        ELSE \/ startswith(value_str, <<"h", "t", "t", "p", ":", "/", "/">>)
             \/ startswith(value_str, <<"h", "t", "t", "p", "s", ":", "/", "/">>)
             \/ startswith(value_str, <<"w", "w", "w", ".">>)
             \/ domain_pattern(value_str)

\* fix_address_website_parsing(row): the pair (fixed_address, fixed_website)
merge_address_website(row) ==
    LET address == stripped_cell(row_get(row, "ae_address"))
        website == stripped_cell(row_get(row, "ae_website"))
    IN  IF website # <<>> /\ ~is_url(website) /\ address # <<>>
        THEN [address |-> address \o <<",", " ">> \o website, website |-> None]
        ELSE [address |-> IF address # <<>> THEN address ELSE None,
              website |-> IF website # <<>> THEN website ELSE None]

\* normalize_commercial_name(name) for a str
normalize_commercial_name(name) ==
    IF name = <<>> THEN None
    ELSE LET stripped == strip(name)
         IN  IF stripped = <<>> THEN None
             ELSE IF stripped = <<"e", " ", "T", "o", "r", "o">> THEN <<"e",
                   "T", "o", "r", "o">>
             ELSE stripped

\* [x for x in items if x]
RECURSIVE non_empty(_)
non_empty(items) ==
    IF items = <<>> THEN <<>>
    ELSE (IF Head(items) # <<>> THEN <<Head(items)>> ELSE <<>>) \o non_empty(Tail(items))

\* parse_pipe_separated(value) for a str
parse_pipe_separated(value) ==
    IF value = <<>> \/ strip(value) = <<>> THEN <<>>
    ELSE LET items == split_char(value, "|")
         IN  non_empty([i \in 1..Len(items) |-> strip(items[i])])

\* normalize_service_code(service_text): the code as a one-letter str, or None
normalize_service_code(service_text) ==
    IF service_text = <<>> THEN None
    ELSE LET text == strip(service_text)
             \* the letter matched by [a-j] under re.IGNORECASE, lowered
             letter == lower(SubSeq(text, 1, 1))
         IN  IF text = <<>> THEN None
             ELSE IF letter[1] \in {"a", "b", "c", "d", "e", "f", "g", "h", "i", "j"}
                     /\ IsLetter(text[1])
             THEN letter
             ELSE None

MICA_SERVICE_DESCRIPTIONS(code) ==
    CASE code = <<"a">> ->
           <<"p", "r", "o", "v", "i", "d", "i", "n", "g", " ", "c", "u", "s",
               "t", "o", "d", "y", " ", "a", "n", "d", " ", "a", "d", "m", "i",
               "n", "i", "s", "t", "r", "a", "t", "i", "o", "n", " ", "o", "f",
               " ", "c", "r", "y", "p", "t", "o", "-", "a", "s", "s", "e", "t",
               "s", " ", "o", "n", " ", "b", "e", "h", "a", "l", "f", " ", "o",
               "f", " ", "c", "l", "i", "e", "n", "t", "s">>
      [] code = <<"b">> ->
           <<"o", "p", "e", "r", "a", "t", "i", "o", "n", " ", "o", "f", " ",
               "a", " ", "t", "r", "a", "d", "i", "n", "g", " ", "p", "l", "a",
               "t", "f", "o", "r", "m", " ", "f", "o", "r", " ", "c", "r", "y",
               "p", "t", "o", "-", "a", "s", "s", "e", "t", "s">>
      [] code = <<"c">> ->
           <<"e", "x", "c", "h", "a", "n", "g", "e", " ", "o", "f", " ", "c",
               "r", "y", "p", "t", "o", "-", "a", "s", "s", "e", "t", "s", " ",
               "f", "o", "r", " ", "f", "u", "n", "d", "s">>
      [] code = <<"d">> ->
           <<"e", "x", "c", "h", "a", "n", "g", "e", " ", "o", "f", " ", "c",
               "r", "y", "p", "t", "o", "-", "a", "s", "s", "e", "t", "s", " ",
               "f", "o", "r", " ", "o", "t", "h", "e", "r", " ", "c", "r", "y",
               "p", "t", "o", "-", "a", "s", "s", "e", "t", "s">>
      [] code = <<"e">> ->
           <<"e", "x", "e", "c", "u", "t", "i", "o", "n", " ", "o", "f", " ",
               "o", "r", "d", "e", "r", "s", " ", "f", "o", "r", " ", "c", "r",
               "y", "p", "t", "o", "-", "a", "s", "s", "e", "t", "s", " ", "o",
               "n", " ", "b", "e", "h", "a", "l", "f", " ", "o", "f", " ", "c",
               "l", "i", "e", "n", "t", "s">>
      [] code = <<"f">> ->
           <<"p", "l", "a", "c", "i", "n", "g", " ", "o", "f", " ", "c", "r",
               "y", "p", "t", "o", "-", "a", "s", "s", "e", "t", "s">>
      [] code = <<"g">> ->
           <<"r", "e", "c", "e", "p", "t", "i", "o", "n", " ", "a", "n", "d",
               " ", "t", "r", "a", "n", "s", "m", "i", "s", "s", "i", "o", "n",
               " ", "o", "f", " ", "o", "r", "d", "e", "r", "s", " ", "f", "o",
               "r", " ", "c", "r", "y", "p", "t", "o", "-", "a", "s", "s", "e",
               "t", "s", " ", "o", "n", " ", "b", "e", "h", "a", "l", "f", " ",
               "o", "f", " ", "c", "l", "i", "e", "n", "t", "s">>
      [] code = <<"h">> ->
           <<"p", "r", "o", "v", "i", "d", "i", "n", "g", " ", "a", "d", "v",
               "i", "c", "e", " ", "o", "n", " ", "c", "r", "y", "p", "t", "o",
               "-", "a", "s", "s", "e", "t", "s">>
      [] code = <<"i">> ->
           <<"p", "r", "o", "v", "i", "d", "i", "n", "g", " ", "p", "o", "r",
               "t", "f", "o", "l", "i", "o", " ", "m", "a", "n", "a", "g", "e",
               "m", "e", "n", "t", " ", "o", "n", " ", "c", "r", "y", "p", "t",
               "o", "-", "a", "s", "s", "e", "t", "s">>
      [] code = <<"j">> ->
           <<"p", "r", "o", "v", "i", "d", "i", "n", "g", " ", "t", "r", "a",
               "n", "s", "f", "e", "r", " ", "s", "e", "r", "v", "i", "c", "e",
               "s", " ", "f", "o", "r", " ", "c", "r", "y", "p", "t", "o", "-",
               "a", "s", "s", "e", "t", "s", " ", "o", "n", " ", "b", "e", "h",
               "a", "l", "f", " ", "o", "f", " ", "c", "l", "i", "e", "n", "t",
               "s">>
      [] OTHER -> <<>>

-----------------------------------------------------------------------------
(* csv_clean.py: CSVCleaner for the CASP register.  The cleaner's state is   *)
(* [df, changes]; df is a sequence of rows, a row maps each column of the    *)
(* header to a str (load_csv reads every cell as a str, an empty cell as     *)
(* the empty str).                                                           *)

\* self.register_type
register_type == "casp"

\* config/registers.py: the keys of CASP_COLUMNS, in the order of the dict
column_mapping ==
    <<"ae_competentAuthority",
      "ae_homeMemberState",
      "ae_lei_name",
      "ae_lei",
      "ae_lei_cou_code",
      "ae_commercial_name",
      "ae_address",
      "ae_website",
      "ae_website_platform",
      "ac_authorisationNotificationDate",
      "ac_authorisationEndDate",
      "ac_serviceCode",
      "ac_serviceCode_cou",
      "ac_comments",
      "ac_lastupdate">>

\* the characters of a column name
column_chars(col) ==
    CASE col = "ae_competentAuthority" ->
           <<"a", "e", "_", "c", "o", "m", "p", "e", "t", "e", "n", "t", "A",
               "u", "t", "h", "o", "r", "i", "t", "y">>
      [] col = "ae_homeMemberState" ->
           <<"a", "e", "_", "h", "o", "m", "e", "M", "e", "m", "b", "e", "r",
               "S", "t", "a", "t", "e">>
      [] col = "ae_lei_name" ->
           <<"a", "e", "_", "l", "e", "i", "_", "n", "a", "m", "e">>
      [] col = "ae_lei" ->
           <<"a", "e", "_", "l", "e", "i">>
      [] col = "ae_lei_cou_code" ->
           <<"a", "e", "_", "l", "e", "i", "_", "c", "o", "u", "_", "c", "o",
               "d", "e">>
      [] col = "ae_commercial_name" ->
           <<"a", "e", "_", "c", "o", "m", "m", "e", "r", "c", "i", "a", "l",
               "_", "n", "a", "m", "e">>
      [] col = "ae_address" ->
           <<"a", "e", "_", "a", "d", "d", "r", "e", "s", "s">>
      [] col = "ae_website" ->
           <<"a", "e", "_", "w", "e", "b", "s", "i", "t", "e">>
      [] col = "ae_website_platform" ->
           <<"a", "e", "_", "w", "e", "b", "s", "i", "t", "e", "_", "p", "l",
               "a", "t", "f", "o", "r", "m">>
      [] col = "ac_authorisationNotificationDate" ->
           <<"a", "c", "_", "a", "u", "t", "h", "o", "r", "i", "s", "a", "t",
               "i", "o", "n", "N", "o", "t", "i", "f", "i", "c", "a", "t", "i",
               "o", "n", "D", "a", "t", "e">>
      [] col = "ac_authorisationEndDate" ->
           <<"a", "c", "_", "a", "u", "t", "h", "o", "r", "i", "s", "a", "t",
               "i", "o", "n", "E", "n", "d", "D", "a", "t", "e">>
      [] col = "ac_serviceCode" ->
           <<"a", "c", "_", "s", "e", "r", "v", "i", "c", "e", "C", "o", "d",
               "e">>
      [] col = "ac_serviceCode_cou" ->
           <<"a", "c", "_", "s", "e", "r", "v", "i", "c", "e", "C", "o", "d",
               "e", "_", "c", "o", "u">>
      [] col = "ac_comments" ->
           <<"a", "c", "_", "c", "o", "m", "m", "e", "n", "t", "s">>
      [] col = "ac_lastupdate" ->
           <<"a", "c", "_", "l", "a", "s", "t", "u", "p", "d", "a", "t", "e">>

\* keyword in csv_col.lower()
name_has(col, keyword) == contains(lower(column_chars(col)), keyword)

\* [c for c in cols if Keep(c)]
select_columns(cols, Keep(_)) == SelectSeq(cols, Keep)

\* df.columns: the header of the loaded file, a subset of the register's
\* columns in the file's order
df_header ==
    <<"ae_lei", "ae_commercial_name", "ae_address", "ae_website",
      "ac_authorisationNotificationDate", "ac_serviceCode",
          "ac_serviceCode_cou",
      "ac_comments">>

in_header(col) == col \in Range(df_header)

\* Change(type, row, column, old_value, new_value); idx is the 1-based
\* position of the row in df, the code's idx + 2 is idx + 1 here
Change(type, idx, column, old_value, new_value) ==
    [type |-> type, row |-> idx + 1, column |-> column,
     old_value |-> old_value, new_value |-> new_value]

\* the outcome of a fixer on one cell: the cell's value after it and the
\* (type, old_value, new_value) of the changes it records
Kept(value) == [value |-> value, notes |-> <<>>]

Fixed(value, type, old_value, new_value) ==
    [value |-> value,
     notes |-> <<[type |-> type, old_value |-> old_value,
         new_value |-> new_value]>>]

\* for idx, row in self.df.iterrows() over one column: CellFix on every cell,
\* the changes appended in row order
fix_column(st, col, CellFix(_)) ==
    LET cell_changes(res, idx) ==
            [k \in 1..Len(res.notes) |->
                Change(res.notes[k].type, idx, col, res.notes[k].old_value,
                       res.notes[k].new_value)]
    IN  on([i \in 1..Len(st.df) |-> CellFix(st.df[i][col])], LAMBDA res :
           [df |-> [i \in 1..Len(st.df) |->
                       [st.df[i] EXCEPT ![col] = res[i].value]],
            changes |-> st.changes
                        \o flatten([i \in 1..Len(st.df) |-> cell_changes(res[i], i)])])

\* for col in cols: the same over several columns, column by column
fix_columns(st, cols, CellFix(_, _)) ==
    LET g[k \in 0..Len(cols)] ==
            IF k = 0 THEN st
            ELSE fix_column(g[k - 1], cols[k], LAMBDA v : CellFix(cols[k], v))
    IN  g[Len(cols)]

\* the date columns of the register (lines 110-113 and 258-261)
date_columns ==
    select_columns(column_mapping,
                   LAMBDA c : name_has(c, <<"d", "a", "t",
                       "e">>) \/ name_has(c, <<"l", "a", "s", "t", "u", "p",
                       "d", "a", "t", "e">>))

\* a fixer's outcome on a cell whose text original it rewrites to fixed
changed(type, value, original, fixed) ==
    IF fixed # original
    THEN Fixed(fixed, type, prefix(original, 100), prefix(fixed, 100))
    ELSE Kept(value)

\* fix_whitespace_globally on one cell
whitespace_cell(col, value) ==
    LET \* lines 119-126: the text without NBSP and outer whitespace, and
        \* outside the date and LEI columns with single spaces
        whitespace_text(original) ==
            on(strip(replace(original, <<"NBSP">>, <<" ">>)), LAMBDA stripped :
               IF col \notin Range(date_columns) /\ col # "ae_lei"
               THEN collapse_whitespace(stripped) ELSE stripped)
    IN  IF ~notna(value) THEN Kept(value)
        ELSE changed("WHITESPACE_FIXED", value, str(value),
                     whitespace_text(str(value)))

fix_whitespace_globally(st) == fix_columns(st, df_header, whitespace_cell)

has_replacement(text) ==
    contains(text, ReplacementChar) \/ contains(text, ReplacementBytes)

\* detect_and_fix_encoding_data_loss on one cell
data_loss_cell(col, value) ==
    LET \* text[max(0, pos-10):pos+10]
        context_at(text, pos) ==
            SubSeq(text, (IF pos - 10 > 0 THEN pos - 10 ELSE 0) + 1,
                   IF pos + 10 < Len(text) THEN pos + 10 ELSE Len(text))
        \* lines 199-202: the context around the first replacement character
        loss_context(text) ==
            IF contains(text, ReplacementChar)
            THEN context_at(text, find(text, ReplacementChar))
            ELSE context_at(text, find(text, ReplacementBytes))
        \* lines 187-210: the outcome for a text with a replacement character
        outcome(text, fixed) ==
            IF ~has_replacement(fixed)
            THEN Fixed(fixed, "ENCODING_DATA_LOSS_FIXED", prefix(text, 100),
                       prefix(fixed, 100))
            ELSE Fixed(value, "ENCODING_DATA_LOSS_WARNING", loss_context(text),
                       <<"[", "W", "A", "R", "N", "I", "N", "G", ":", " ", "R",
                           "e", "p", "l", "a", "c", "e", "m", "e", "n", "t",
                           " ", "c", "h", "a", "r", "a", "c", "t", "e", "r",
                           " ", "d", "e", "t", "e", "c", "t", "e", "d", " ",
                           "-", " ", "c", "o", "u", "l", "d", " ", "n", "o",
                           "t", " ", "a", "u", "t", "o", "-", "f", "i", "x",
                           ",", " ", "l", "e", "f", "t", " ", "a", "s", "-",
                           "i", "s", "]">>)
    IN  IF ~notna(value) THEN Kept(value)
        ELSE IF ~has_replacement(str(value)) THEN Kept(value)
        ELSE outcome(str(value), fix_text_encoding(str(value)))

detect_and_fix_encoding_data_loss(st) ==
    LET \* lines 168-171: the columns searched for replacement characters
        text_columns ==
            select_columns(column_mapping,
                LAMBDA c : \E k \in {<<"a", "d", "d", "r", "e", "s", "s">>,
                    <<"n", "a", "m", "e">>, <<"a", "u", "t", "h", "o", "r",
                    "i", "t", "y">>,
                                     <<"c", "o", "m", "m", "e", "n", "t",
                                         "s">>, <<"w", "e", "b", "s", "i", "t",
                                         "e">>, <<"u", "r", "l">>,
                                     <<"r", "e", "a", "s", "o", "n">>, <<"i",
                                         "n", "f", "r", "i", "n", "g", "e",
                                         "m", "e", "n", "t">>} :
                              name_has(c, k))
    IN  fix_columns(st, select_columns(text_columns, in_header), data_loss_cell)

\* fix_encoding_issues on one cell
encoding_cell(col, value) ==
    IF ~notna(value) THEN Kept(value)
    ELSE changed("ENCODING_FIXED", value, str(value),
                 fix_text_encoding(str(value)))

fix_encoding_issues(st) ==
    LET \* lines 141-144: the text columns
        text_columns ==
            select_columns(column_mapping,
                LAMBDA c : \E k \in {<<"a", "d", "d", "r", "e", "s", "s">>,
                    <<"n", "a", "m", "e">>, <<"a", "u", "t", "h", "o", "r",
                    "i", "t", "y">>,
                                     <<"c", "o", "m", "m", "e", "n", "t",
                                         "s">>, <<"r", "e", "a", "s", "o",
                                         "n">>,
                                     <<"i", "n", "f", "r", "i", "n", "g", "e",
                                         "m", "e", "n", "t">>} :
                              name_has(c, k))
    IN  fix_columns(st, select_columns(text_columns, in_header), encoding_cell)

\* self.config.date_format
date_format == "%d/%m/%Y"

\* fix_dates on one cell
date_cell(col, value) ==
    LET \* lines 273-297: the outcome for the stripped text of the cell
        outcome(original, parsed_date) ==
            IF parsed_date = NoDate
            THEN Fixed(value, "DATE_WARNING", original,
                       <<"[", "W", "A", "R", "N", "I", "N", "G", ":", " ", "C",
                           "o", "u", "l", "d", " ", "n", "o", "t", " ", "p",
                           "a", "r", "s", "e", " ", "d", "a", "t", "e", " ",
                           "-", " ", "l", "e", "f", "t", " ", "a", "s", "-",
                           "i", "s", ",", " ", "i", "m", "p", "o", "r", "t",
                           "_", "c", "s", "v", ".", "p", "y", " ", "w", "i",
                           "l", "l", " ", "a", "t", "t", "e", "m", "p", "t",
                           " ", "t", "o", " ", "f", "i", "x", "]">>)
            ELSE on(strftime(parsed_date, date_format), LAMBDA formatted :
                    IF formatted # original
                    THEN Fixed(formatted, "DATE_FIXED", original, formatted)
                    ELSE Kept(value))
    IN  IF ~notna(value) THEN Kept(value)
        ELSE on(strip(str(value)), LAMBDA original :
                IF original = <<>> THEN Kept(value)
                ELSE outcome(original, parse_date(original, date_format)))

\* fix_dates that writes the dates it formats and records nothing
fix_dates_mut(st) ==
    [df |-> fix_columns(st, select_columns(date_columns, in_header),
                        date_cell).df,
     changes |-> st.changes]

fix_dates(st) ==
    fix_columns(st, select_columns(date_columns, in_header), date_cell)

\* [u for u in seq], each value once, in the order of first appearance
RECURSIVE dedup(_)
dedup(seq) ==
    IF seq = <<>> THEN <<>>
    ELSE LET rest == dedup(SubSeq(seq, 1, Len(seq) - 1))
             last == seq[Len(seq)]
         IN  IF last \in Range(rest) THEN rest ELSE Append(rest, last)

has_newline(text) == contains(text, <<"NL">>) \/ contains(text, <<"CR">>)

\* fix_multiline_fields on one cell of the website column
multiline_website_cell(col, value) ==
    LET \* lines 321-328: the URL a part stands for, <<>> if it is not taken
        website_part(part) ==
            IF part # <<>> /\ (is_url(part) \/ startswith(part, <<"w", "w",
                "w", ".">>)
                               \/ contains(part, <<".">>))
            THEN IF startswith(part, <<"h", "t", "t", "p", ":", "/",
                "/">>) \/ startswith(part, <<"h", "t", "t", "p", "s", ":", "/",
                "/">>)
                 THEN part
                 ELSE IF startswith(part, <<"w", "w", "w",
                     ".">>) \/ contains(part, <<".">>)
                 THEN <<"h", "t", "t", "p", "s", ":", "/", "/">> \o part
                 ELSE part
            ELSE <<>>
        \* lines 316-333: the text a multiline website is rewritten to
        website_text(original) ==
            on(re_split(original, IsSpace), LAMBDA parts :
            on(dedup(non_empty([i \in 1..Len(parts) |->
                                   website_part(strip(parts[i]))])),
               LAMBDA urls :
                  IF urls # <<>> THEN join(<<"|">>, urls)
                  ELSE join(<<" ">>, parts)))
    IN  IF ~notna(value) THEN Kept(value)
        ELSE IF ~has_newline(str(value)) THEN Kept(value)
        ELSE changed("MULTILINE_WEBSITE_FIXED", value, str(value),
                     website_text(str(value)))

\* fix_multiline_fields on one cell of an address, comments or reason column
multiline_text_cell(col, value) ==
    LET \* lines 360-362: line breaks to spaces, then single spaces, stripped
        one_line(original) ==
            strip(collapse_whitespace(
                replace_each(original, <<<<<<"CR", "NL">>, <<" ">>>>,
                                         <<<<"NL">>, <<" ">>>>,
                                         <<<<"CR">>, <<" ">>>>>>)))
    IN  IF ~notna(value) THEN Kept(value)
        ELSE IF ~has_newline(str(value)) THEN Kept(value)
        ELSE changed("MULTILINE_FIXED", value, str(value), one_line(str(value)))

fix_multiline_fields(st) ==
    LET \* lines 303-307: the columns of the header that name a website or a
        \* URL, of which the code takes the first
        website_columns ==
            select_columns(df_header,
                LAMBDA c : name_has(c, <<"w", "e", "b", "s", "i", "t",
                    "e">>) \/ name_has(c, <<"u", "r", "l">>))
        \* lines 346-349
        text_columns ==
            select_columns(df_header,
                LAMBDA c : \E k \in {<<"a", "d", "d", "r", "e", "s", "s">>,
                    <<"c", "o", "m", "m", "e", "n", "t", "s">>, <<"r", "e",
                    "a", "s", "o", "n">>} :
                              name_has(c, k))
    IN  fix_columns(fix_columns(st, prefix(website_columns, 1),
                                multiline_website_cell),
                    text_columns, multiline_text_cell)

\* normalize_country_codes on one cell with EL replaced by GR, not kept
country_cell_mut(col, value) ==
    LET \* lines 227-240: the set of normalized codes of a value, split at
        \* [|;,\s]+
        code_set(original) ==
            on(re_split(original, LAMBDA c : c \in {"|", ";",
                ","} \/ IsSpace(c)),
               LAMBDA codes :
            on({upper(strip(codes[i])) : i \in 1..Len(codes)} \ {<<>>},
               LAMBDA cleaned :
                  IF <<"E", "L">> \in cleaned
                  THEN (cleaned \ {<<"E", "L">>}) \cup {<<"G", "R">>}
                  ELSE cleaned))
        \* lines 242-253: the outcome for the stripped text and its codes
        outcome(original, normalized_codes) ==
            IF normalized_codes = {} THEN Kept(value)
            ELSE on(join(<<"|">>, sorted(normalized_codes)), LAMBDA fixed :
                    IF fixed # original
                    THEN Fixed(fixed, "COUNTRY_CODE_NORMALIZED", original,
                        fixed)
                    ELSE Kept(value))
    IN  IF ~notna(value) THEN Kept(value)
        ELSE on(strip(str(value)), LAMBDA original :
                IF original = <<>> THEN Kept(value)
                ELSE outcome(original, code_set(original)))

\* normalize_country_codes on one cell
country_cell(col, value) ==
    LET \* lines 227-240: the set of normalized codes of a value, split at
        \* [|;,\s]+
        code_set(original) ==
            on(re_split(original, LAMBDA c : c \in {"|", ";",
                ","} \/ IsSpace(c)),
               LAMBDA codes :
            on({upper(strip(codes[i])) : i \in 1..Len(codes)} \ {<<>>},
               LAMBDA cleaned :
                  cleaned \cup (IF <<"E", "L">> \in cleaned THEN {<<"G", "R">>}
                                ELSE {})))
        \* lines 242-253: the outcome for the stripped text and its codes
        outcome(original, normalized_codes) ==
            IF normalized_codes = {} THEN Kept(value)
            ELSE on(join(<<"|">>, sorted(normalized_codes)), LAMBDA fixed :
                    IF fixed # original
                    THEN Fixed(fixed, "COUNTRY_CODE_NORMALIZED", original,
                        fixed)
                    ELSE Kept(value))
    IN  IF ~notna(value) THEN Kept(value)
        ELSE on(strip(str(value)), LAMBDA original :
                IF original = <<>> THEN Kept(value)
                ELSE outcome(original, code_set(original)))

normalize_country_codes(st) ==
    IF register_type # "casp" \/ ~in_header("ac_serviceCode_cou") THEN st
    ELSE fix_columns(st, <<"ac_serviceCode_cou">>, country_cell)

\* normalize_service_codes on one cell
service_cell(col, value) ==
    LET \* lines 514-520: the set of normalized codes of the cell
        code_set ==
            on(parse_pipe_separated(value), LAMBDA service_texts :
               {normalize_service_code(service_texts[i]) :
                   i \in 1..Len(service_texts)} \ {None})
        \* line 525: "a. description" for a code
        service_label(code) ==
            code \o <<".", " ">> \o MICA_SERVICE_DESCRIPTIONS(code)
        \* lines 524-527: the labels of the codes in sorted order, joined
        service_text(normalized_codes) ==
            on(sorted(normalized_codes), LAMBDA in_order :
               join(<<" ", "|", " ">>,
                    [i \in 1..Len(in_order) |-> service_label(in_order[i])]))
    IN  on(code_set, LAMBDA normalized_codes :
           IF normalized_codes = {} THEN Kept(value)
           ELSE changed("SERVICE_CODE_NORMALIZED", value, str(value),
                        service_text(normalized_codes)))

normalize_service_codes(st) ==
    IF register_type # "casp" \/ ~in_header("ac_serviceCode") THEN st
    ELSE fix_columns(st, <<"ac_serviceCode">>, service_cell)

\* normalize_commercial_names on one cell
commercial_name_cell(col, value) ==
    LET \* lines 550-558: the outcome for a name and its normalization
        outcome(original, fixed) ==
            IF truthy(fixed) /\ fixed # original
            THEN Fixed(fixed, "COMMERCIAL_NAME_NORMALIZED", original, fixed)
            ELSE Kept(value)
    IN  IF ~notna(value) THEN Kept(value)
        ELSE outcome(str(value), normalize_commercial_name(str(value)))

normalize_commercial_names(st) ==
    IF ~in_header("ae_commercial_name") THEN st
    ELSE fix_columns(st, <<"ae_commercial_name">>, commercial_name_cell)

\* CSVCleaner.fix_address_website_parsing on one row: the row after it and
\* the changes it records
address_website_row(idx, row) ==
    LET \* lines 484-502: the row and the changes for what the import's repair
        \* returns
        outcome(merged, original_address, original_website) ==
            on(truthy(merged.address) /\ merged.address # original_address,
               LAMBDA fix_address :
            on(merged.website # None /\ str(merged.website) # original_website,
               LAMBDA fix_website :
            on(IF truthy(merged.website) THEN merged.website ELSE <<>>,
               LAMBDA new_website :
                  [row |-> [row EXCEPT
                              !["ae_address"] =
                                  IF fix_address THEN merged.address ELSE @,
                              !["ae_website"] =
                                  IF fix_website THEN new_website ELSE @],
                   changes |->
                      (IF fix_address
                       THEN <<Change("ADDRESS_PARSING_FIXED", idx, "ae_address",
                                     prefix(original_address, 100),
                                     prefix(merged.address, 100))>>
                       ELSE <<>>)
                      \o (IF fix_website
                          THEN <<Change("WEBSITE_PARSING_FIXED", idx,
                              "ae_website",
                                        prefix(original_website, 100),
                                        prefix(new_website, 100))>>
                          ELSE <<>>)])))
    IN  outcome(merge_address_website(row),
                stripped_cell(row_get(row, "ae_address")),
                stripped_cell(row_get(row, "ae_website")))

fix_address_website_parsing(st) ==
    IF ~in_header("ae_address") \/ ~in_header("ae_website") THEN st
    ELSE on([i \in 1..Len(st.df) |-> address_website_row(i, st.df[i])],
        LAMBDA res :
            [df |-> [i \in 1..Len(st.df) |-> res[i].row],
             changes |-> st.changes
                         \o flatten([i \in 1..Len(st.df) |-> res[i].changes])])

\* the exponents of a literal are capped where every double is 0 or inf
MaxExponent == 9999

\* float(s) of a stripped str: whether it is a literal with an exponent, and
\* then its sign, its significant digits and the power of ten they are
\* multiplied by (inf and nan have no E+ or E- and never reach line 409).
\* Exponents of more than four digits count as MaxExponent.
float_literal(s) ==
    LET \* a literal or an exponent without its sign
        unsigned(t) == IF t # <<>> /\ t[1] \in {"+", "-"} THEN from(t, 2) ELSE t
        is_negative(t) == t # <<>> /\ t[1] = "-"
        \* a run of digits: digits, single underscores between them
        digit_group(t) ==
            /\ t # <<>>
            /\ IsDigit(t[1]) /\ IsDigit(t[Len(t)])
            /\ \A i \in 1..Len(t) : IsDigit(t[i]) \/ t[i] = "_"
            /\ \A i \in 1..(Len(t) - 1) : ~(t[i] = "_" /\ t[i + 1] = "_")
        only_digits(t) == SelectSeq(t, IsDigit)
        strip_zeros(t) == from(t, next_where(t, 1, LAMBDA c : c # "0"))
        \* the integer part, the fraction and the exponent of an unsigned literal
        literal_parts(body) ==
            on(next_where(body, 1, LAMBDA c : c \in {"e", "E"}), LAMBDA epos :
            on(SubSeq(body, 1, epos - 1), LAMBDA mantissa :
            on(next_where(mantissa, 1, LAMBDA c : c = "."), LAMBDA dot :
               [has_exponent |-> epos <= Len(body),
                int_part |-> SubSeq(mantissa, 1, dot - 1),
                frac_part |-> from(mantissa, dot + 1),
                exponent |-> from(body, epos + 1)])))
        literal_ok(p) ==
            /\ p.has_exponent
            /\ digit_group(unsigned(p.exponent))
            /\ p.int_part = <<>> \/ digit_group(p.int_part)
            /\ p.frac_part = <<>> \/ digit_group(p.frac_part)
            /\ p.int_part # <<>> \/ p.frac_part # <<>>
        exponent_value(digits) ==
            IF Len(digits) > 4 THEN MaxExponent ELSE int_of(digits)
        \* the exponent of a literal as a signed number
        signed_exponent(exponent) ==
            on(exponent_value(strip_zeros(only_digits(unsigned(exponent)))),
               LAMBDA exp : IF is_negative(exponent) THEN 0 - exp ELSE exp)
    IN  on(literal_parts(unsigned(s)), LAMBDA p :
           IF ~literal_ok(p) THEN [ok |-> FALSE]
           ELSE [ok |-> TRUE,
                 negative |-> is_negative(s),
                 digits |-> strip_zeros(only_digits(p.int_part)
                                        \o only_digits(p.frac_part)),
                 exp10 |-> signed_exponent(p.exponent)
                           - Len(only_digits(p.frac_part))])

\* str(int(float(s))) of a literal, None where int() raises OverflowError:
\* 1.7976931348623158e308 and above round to inf.
\* The digits are those of the decimal value, which a double holds exactly
\* for the 20-digit results of mantissas of up to 6 digits; of the other
\* results only the length is used.
int_of_float(lit) ==
    LET magnitude == Len(lit.digits) + lit.exp10
    IN  IF lit.digits = <<>> \/ magnitude <= 0 THEN <<"0">>
        ELSE IF magnitude > 309
                \/ (magnitude = 309
                    /\ ~str_less(lit.digits, <<"1", "7", "9", "7", "6", "9",
                        "3", "1", "3", "4", "8", "6", "2", "3", "1", "5",
                        "8">>))
        THEN None
        ELSE (IF lit.negative THEN <<"-">> ELSE <<>>)
             \o (IF lit.exp10 >= 0
                 THEN lit.digits \o [i \in 1..lit.exp10 |-> "0"]
                 ELSE SubSeq(lit.digits, 1, magnitude))

\* lei_pattern.match: ^[A-Z0-9]{20}$, where $ also matches before a final newline
lei_pattern(s) ==
    /\ Len(s) = 20 \/ (Len(s) = 21 /\ s[21] = "NL")
    /\ \A i \in 1..20 : IsUpper(s[i]) \/ IsDigit(s[i])

\* lines 461-470: the Change of a warning
lei_warning(idx, lei, reason) ==
    Change("LEI_WARNING", idx, "ae_lei", lei,
           <<"[", "W", "A", "R", "N", "I", "N", "G", ":", " ">> \o reason
           \o <<" ", "-", " ", "l", "e", "f", "t", " ", "a", "s", "-", "i",
               "s", ",", " ", "i", "m", "p", "o", "r", "t", " ", "m", "a", "y",
               " ", "s", "k", "i", "p", " ", "t", "h", "i", "s", " ", "r", "o",
               "w", "]">>)

\* lines 405-436: the Excel scientific notation branch
lei_excel(idx, original, lei, cell) ==
    LET \* an LEI the code leaves as it is, with a warning
        left(reason) ==
            [value |-> cell, changes |-> <<>>,
             warnings |-> <<lei_warning(idx, lei, reason)>>]
        \* lines 410-429: the outcome for str(int(num)).upper()
        outcome(recovered) ==
            IF Len(recovered) = 20
            THEN [value |-> recovered,
                  changes |-> <<Change("LEI_EXCEL_NOTATION_FIXED", idx,
                      "ae_lei",
                                       original, recovered)>>,
                  warnings |-> <<>>]
            ELSE left(<<"E", "x", "c", "e", "l", " ", "s", "c", "i", "e", "n",
                "t", "i", "f", "i", "c", " ", "n", "o", "t", "a", "t", "i",
                "o", "n", " ", "-", " ", "r", "e", "c", "o", "v", "e", "r",
                "e", "d", " ", "l", "e", "n", "g", "t", "h", " ">>
                      \o decimal(Len(recovered)) \o <<",", " ", "e", "x", "p",
                          "e", "c", "t", "e", "d", " ", "2", "0">>)
    IN  on(float_literal(lei), LAMBDA lit :
        on(IF lit.ok THEN int_of_float(lit) ELSE None, LAMBDA number :
           IF number = None
           THEN left(<<"E", "x", "c", "e", "l", " ", "s", "c", "i", "e", "n",
               "t", "i", "f", "i", "c", " ", "n", "o", "t", "a", "t", "i", "o",
               "n", " ", "-", " ", "c", "a", "n", "n", "o", "t", " ", "c", "o",
               "n", "v", "e", "r", "t">>)
           ELSE outcome(upper(number))))

\* lines 438-459: the cleanup of the other characters and the final check
lei_cleanup(idx, original, lei, cell) ==
    LET outcome(cleaned) ==
            on(Len(cleaned) = 20 /\ cleaned # lei, LAMBDA clean :
            on(IF clean THEN cleaned ELSE lei, LAMBDA fixed :
               [value |-> IF clean THEN cleaned ELSE cell,
                changes |-> IF clean
                            THEN <<Change("LEI_CLEANED", idx, "ae_lei",
                                original,
                                          fixed)>>
                            ELSE <<>>,
                warnings |-> IF lei_pattern(fixed) THEN <<>>
                             ELSE <<lei_warning(idx, fixed,
                                       <<"I", "n", "v", "a", "l", "i", "d",
                                           " ", "f", "o", "r", "m", "a", "t",
                                           " ", "(", "l", "e", "n", "g", "t",
                                           "h", ":", " ">>
                                       \o decimal(Len(fixed))
                                       \o <<",", " ", "e", "x", "p", "e", "c",
                                           "t", "e", "d", ":", " ", "2", "0",
                                           ")">>)>>]))
    IN  outcome(SelectSeq(upper(lei), LAMBDA c : IsUpper(c) \/ IsDigit(c)))

\* lines 381-459: one row of fix_lei_format
lei_row(idx, value) ==
    LET \* lines 405 and 438: the branch an LEI takes after the trailing dot
        rest(original, lei, cell) ==
            IF \E sign \in {"+", "-"} : contains(upper(lei), <<"E", sign>>)
            THEN lei_excel(idx, original, lei, cell)
            ELSE lei_cleanup(idx, original, lei, cell)
        \* lines 389-403: the trailing dot; lei is original without it
        dot(original, dotted, lei) ==
            on(IF dotted
               THEN <<Change("LEI_TRAILING_DOT_REMOVED", idx, "ae_lei",
                   original,
                             lei)>>
               ELSE <<>>,
               LAMBDA dot_change :
                  IF dotted /\ lei_pattern(lei)
                  THEN [value |-> lei, changes |-> dot_change,
                      warnings |-> <<>>]
                  ELSE on(rest(original, lei, IF dotted THEN lei ELSE value),
                          LAMBDA after :
                             [value |-> after.value,
                              changes |-> dot_change \o after.changes,
                              warnings |-> after.warnings]))
    IN  IF ~notna(value)
        THEN [value |-> value, changes |-> <<>>, warnings |-> <<>>]
        ELSE on(strip(str(value)), LAMBDA original :
                IF original = <<>>
                THEN [value |-> value, changes |-> <<>>, warnings |-> <<>>]
                ELSE dot(original, endswith(original, <<".">>),
                         rstrip_dot(original)))

\* fix_lei_format as a fixer that keeps one row for each LEI
fix_lei_format_mut(st) ==
    LET firsts[i \in 0..Len(st.df)] ==
            IF i = 0 THEN <<>>
            ELSE IF \E j \in 1..(i - 1) : st.df[j].ae_lei = st.df[i].ae_lei
            THEN firsts[i - 1]
            ELSE Append(firsts[i - 1], st.df[i])
    IN  [df |-> firsts[Len(st.df)], changes |-> st.changes]

fix_lei_format(st) ==
    IF ~in_header("ae_lei") THEN st
    ELSE on([i \in 1..Len(st.df) |-> lei_row(i, row_get(st.df[i], "ae_lei"))],
            LAMBDA res :
               [df |-> [i \in 1..Len(st.df) |->
                           [st.df[i] EXCEPT !["ae_lei"] = res[i].value]],
                changes |-> st.changes
                            \o flatten([i \in 1..Len(st.df) |-> res[i].changes])
                            \o flatten([i \in 1..Len(st.df) |-> res[i].warnings])])

\* one fixer of the sequence: Fixer runs on the state the fixers before it
\* left, and the state after it is added to the stages.  The comparison makes
\* the model checker compute the state once, before the next fixer reads it.
then(stages, Fixer(_)) ==
    CHOOSE after \in {Append(done,
        Fixer(done[Len(done)])) : done \in {stages}} :
        after = after

\* fix_all_issues, lines 565-607: the table and the changes before the first
\* and after each of the ten fixers, in the order the code runs them
fix_all_stages(st) ==
    then(then(then(then(then(then(then(then(then(then(<<st>>,
        fix_whitespace_globally),
        detect_and_fix_encoding_data_loss),
        fix_encoding_issues),
        fix_dates),
        fix_multiline_fields),
        normalize_country_codes),
        fix_lei_format),
        fix_address_website_parsing),
        normalize_service_codes),
        normalize_commercial_names)

\* fix_all_issues: the table and the changes after the last fixer
fix_all_issues(st) == fix_all_stages(st)[11]

-----------------------------------------------------------------------------
(* scripts/clean_csv.py: a CSVCleaner is built on a file, loads it, runs      *)
(* fix_all_issues, reports and saves; a later run cleans the saved file       *)

\* the cleaning runs of one file
MaxPasses == 2

\* the rows of an input file
MaxRows == 2

\* a row no fixer changes
CleanRow ==
    [ae_lei |-> <<"5", "2", "9", "9", "0", "0", "1", "A", "B", "C", "D", "E",
        "F", "G", "H", "I", "J", "0", "1", "2">>,
     ae_commercial_name |-> <<"K", "r", "a", "k", "e", "n">>,
     ae_address |-> <<"1", " ", "M", "a", "i", "n", " ", "S", "t">>,
     ae_website |-> <<"h", "t", "t", "p", "s", ":", "/", "/", "k", ".", "c",
         "o", "m">>,
     ac_authorisationNotificationDate |-> <<"0", "1", "/", "1", "2", "/", "2",
         "0", "2", "5">>,
     ac_serviceCode |-> <<>>,
     ac_serviceCode_cou |-> <<"A", "T">>,
     ac_comments |-> <<>>]

\* cells of input files: a column and the text read_csv returns for it
CellSamples ==
    { <<"ae_lei", <<"X", ".">>>>,
      <<"ae_lei", <<"-", "1", ".", "5", "E", "+", "1", "8">>>>,
      <<"ac_authorisationNotificationDate", <<"0", "1", "/", "1", "2", "/",
          " ", ".", "2", "0", "2", "5">>>>,
      <<"ac_authorisationNotificationDate", <<"0", "1", "/", "1", "2", "/",
          ".", " ", "2", "0", "2", "5">>>>,
      <<"ac_authorisationNotificationDate", <<"3", "1", "/", "0", "2", "/",
          ".", "2", "0", "2", "5">>>>,
      <<"ac_serviceCode", <<"a", ".", " ", "x", "|", "k", ".", " ", "y">>>>,
      <<"ac_serviceCode", <<"k", ".", " ", "y">>>>,
      <<"ac_serviceCode", <<"1", "|", "2">>>>,
      <<"ac_serviceCode", <<"a", ";", "B", ",", "c">>>>,
      <<"ac_serviceCode_cou", <<"e", "l", "|", "g", "r">>>>,
      <<"ac_serviceCode_cou", <<"a", "t", " ", "b", "e">>>>,
      <<"ac_serviceCode_cou", <<"|">>>>,
      <<"ac_serviceCode_cou", <<" ", "A", "T", " ">>>>,
      <<"ae_lei", <<"5", "2", "9", "9", "0", "0", "1", "A", "B", "C", "D", "E",
        "F", "G", "H", "I", "J", "0", "1", "2", ".">>>>,
      <<"ae_lei", <<" ", "5", "2", "9", "9", "0", "0", "1", "A", "B", "C", "D",
          "E", "F", "G", "H", "I", "J", "0", "1", "2">>>>,
      <<"ae_lei", <<"5", "2", "9", "9", "0", "0", "1", "a", "b", "c", "d", "e",
          "f", "g", "h", "i", "j", "0", "1", "2">>>>,
      <<"ae_lei", <<"5", "2", "9", "9", "0", "0", "1", "A", "B", "C", "-", "D",
          "E", "F", "G", "H", "I", "J", "0", "1", "2">>>>,
      <<"ae_lei", <<"X">>>>,
      <<"ae_lei", <<"9", ".", "6", "0", "E", "+", "1", "9">>>>,
      <<"ae_lei", <<"1", "E", "+", "4", "0", "0">>>>,
      <<"ae_lei", <<"1", ".", "5", "E", "+", "1", "8">>>>,
      <<"ae_lei", <<>>>>,
      <<"ae_commercial_name", <<"e", " ", "T", "o", "r", "o">>>>,
      <<"ae_commercial_name", <<" ", "K", "r", "a", "k", "e", "n", " ", " ",
          "L", "t", "d", " ">>>>,
      <<"ae_commercial_name", <<"M", "FFFD", "n", "c", "h", "e", "n", " ", "B",
          "a", "n", "k">>>>,
      <<"ae_commercial_name", <<"C", "a", "f", "FFFD">>>>,
      <<"ae_commercial_name", <<"B", "A~", "cur", "r">>>>,
      <<"ae_address", <<"H", "a", "u", "p", "t", "s", "t", "r", "a", "s", "s",
          "e", " ", "1">>>>,
      <<"ae_address", <<"1", " ", "M", "a", "i", "n", "NL", "S", "t">>>>,
      <<"ae_address", <<" ", "1", " ", " ", "M", "a", "i", "n", " ", "S", "t",
          " ">>>>,
      <<"ae_address", <<"L", "FFFD", "w", "e", "n", " ", "2">>>>,
      <<"ae_address", <<>>>>,
      <<"ae_website", <<"a", ".", "c", "o", "NL", "b", ".", "c", "o">>>>,
      <<"ae_website", <<"w", "w", "w", ".", "k", ".", "c", "o", "m">>>>,
      <<"ae_website", <<"P", "a", "r", "i", "s">>>>,
      <<"ae_website", <<"7", "5", "0", "1", "2", " ", "P", "a", "r", "i",
          "s">>>>,
      <<"ae_website", <<"k", ".", "c", "o", "m", "FFFD">>>>,
      <<"ae_website", <<>>>>,
      <<"ac_authorisationNotificationDate", <<"1", ".", "1", "2", ".", "2",
          "0", "2", "5">>>>,
      <<"ac_authorisationNotificationDate", <<"2", "0", "2", "5", "-", "1",
          "2", "-", "0", "1">>>>,
      <<"ac_authorisationNotificationDate", <<"0", "1", "/", "1", "2", "/",
          ".", "2", "0", "2", "5">>>>,
      <<"ac_authorisationNotificationDate", <<"3", "1", "/", "0", "2", "/",
          "2", "0", "2", "5">>>>,
      <<"ac_authorisationNotificationDate", <<"i", "n", "v", "a", "l", "i",
          "d", "-", "d", "a", "t", "e">>>>,
      <<"ac_authorisationNotificationDate", <<>>>>,
      <<"ac_serviceCode", <<"a">>>>,
      <<"ac_serviceCode", <<"b", "|", "a">>>>,
      <<"ac_serviceCode", <<"a", ".", " ", "p", "r", "o", "v", "i", "d", "i",
          "n", "g", " ", "c", "u", "s", "t", "o", "d", "y", " ", "a", "n", "d",
          " ", "a", "d", "m", "i", "n", "i", "s", "t", "r", "a", "t", "i", "o",
          "n", " ", "o", "f", " ", "c", "r", "y", "p", "t", "o", "-", "a", "s",
          "s", "e", "t", "s", " ", "o", "n", " ", "b", "e", "h", "a", "l", "f",
          " ", "o", "f", " ", "c", "l", "i", "e", "n", "t", "s">>>>,
      <<"ac_serviceCode", <<"x">>>>,
      <<"ac_serviceCode_cou", <<"a", "t">>>>,
      <<"ac_serviceCode_cou", <<"B", "E", "|", "A", "T">>>>,
      <<"ac_serviceCode_cou", <<"E", "L">>>>,
      <<"ac_serviceCode_cou", <<>>>>,
      <<"ac_comments", <<"s", "e", "e", "NL", "n", "o", "t", "e">>>>,
      <<"ac_comments", <<" ", "c", " ">>>>,
      <<"ac_comments", <<"c", "a", "f", "FFFD">>>> }

\* the tables read_csv can return for the input file: every cell a str
\* (dtype=str, keep_default_na=False, na_filter=False)
InputTables ==
    LET \* address and website cells of one row
        AddressWebsiteSamples ==
            { <<<<"A">>, <<"X">>>>,
              <<<<"A", ",", " ", "X">>, <<"X">>>>,
              <<<<"A">>, <<"L", "w", "e", "n">>>>,
              <<<<>>, <<"X">>>> }
        SampleRows ==
            {CleanRow}
            \cup {[CleanRow EXCEPT ![e[1]] = e[2]] : e \in CellSamples}
            \cup {[CleanRow EXCEPT !["ae_address"] = p[1],
                                   !["ae_website"] = p[2]] :
                    p \in AddressWebsiteSamples}
        \* the rows after the first: another row of the same LEI, then one
        \* with an LEI that cannot be repaired
        ExtraRows ==
            <<[CleanRow EXCEPT !["ae_address"] = <<"B">>,
                               !["ae_website"] = <<"Y">>,
                               !["ac_authorisationNotificationDate"] =
                                   <<"n", "/", "a">>],
              [CleanRow EXCEPT !["ae_lei"] = <<"X">>,
                               !["ae_commercial_name"] =
                                   <<"e", " ", "T", "o", "r", "o">>]>>
        extra_rows(k) ==
            [i \in 1..k |-> ExtraRows[((i - 1) % Len(ExtraRows)) + 1]]
    IN  {<<>>} \cup {<<r>> \o extra_rows(k) : r \in SampleRows,
            k \in 0..(MaxRows - 1)}

\* CSVCleaner.__init__, lines 58-66
NewCleanerState ==
    /\ cleaner_df = <<>>
    /\ cleaner_changes = <<>>
    /\ rows_before = 0
    /\ rows_after = 0
    /\ fixer_rows = <<>>
    /\ report = <<>>
    /\ clean_pc = "new"

CleanInit ==
    /\ csv_file \in InputTables
    /\ clean_pass = 1
    /\ NewCleanerState

\* load_csv, lines 68-102: the table is the file's, rows_before its length
LoadCsv ==
    /\ clean_pc = "new"
    /\ cleaner_df' = <<csv_file>>
    /\ rows_before' = Len(csv_file)
    /\ clean_pc' = "loaded"
    /\ UNCHANGED <<csv_file, cleaner_changes, rows_after, fixer_rows, report,
                   clean_pass>>

\* load_csv, lines 103-105: the file cannot be read, load_csv returns False
\* and clean_csv.py exits
LoadCsvFails ==
    /\ clean_pc = "new"
    /\ clean_pc' = "load_failed"
    /\ UNCHANGED <<csv_file, cleaner_df, cleaner_changes, rows_before,
        rows_after,
                   fixer_rows, report, clean_pass>>

\* fix_all_issues, lines 560-610; fixer_rows keeps len(self.df) after each of
\* the ten fixers
FixAllIssues ==
    /\ clean_pc = "loaded"
    /\ cleaner_df # <<>>
    /\ \E stages \in {fix_all_stages([df |-> cleaner_df[1],
                                       changes |-> cleaner_changes])} :
          /\ cleaner_df' = <<stages[Len(stages)].df>>
          /\ cleaner_changes' = stages[Len(stages)].changes
          /\ fixer_rows' = [i \in 1..(Len(stages) - 1) |-> Len(stages[i + 1].df)]
          /\ rows_after' = Len(stages[Len(stages)].df)
    /\ clean_pc' = "fixed"
    /\ UNCHANGED <<csv_file, rows_before, report, clean_pass>>

\* generate_report, lines 625-646: the stats and the summary
generate_report ==
    [rows_before |-> rows_before, rows_after |-> rows_after,
     total_changes |-> Len(cleaner_changes)]

GenerateReport ==
    /\ clean_pc = "fixed"
    /\ report' = <<generate_report>>
    /\ clean_pc' = "reported"
    /\ UNCHANGED <<csv_file, cleaner_df, cleaner_changes, rows_before,
        rows_after,
                   fixer_rows, clean_pass>>

\* save_clean_csv, lines 612-623: to_csv writes every cell of the table, a
\* str, to the output file, which a later run reads back with load_csv
SaveCleanCsv ==
    /\ clean_pc = "reported"
    /\ cleaner_df # <<>>
    /\ csv_file' = cleaner_df[1]
    /\ clean_pc' = "saved"
    /\ UNCHANGED <<cleaner_df, cleaner_changes, rows_before, rows_after,
        fixer_rows,
                   report, clean_pass>>

\* a later run of clean_csv.py on the saved file: a new CSVCleaner
NewCleaner ==
    /\ clean_pc = "saved"
    /\ clean_pass < MaxPasses
    /\ clean_pass' = clean_pass + 1
    /\ cleaner_df' = <<>>
    /\ cleaner_changes' = <<>>
    /\ rows_before' = 0
    /\ rows_after' = 0
    /\ fixer_rows' = <<>>
    /\ report' = <<>>
    /\ clean_pc' = "new"
    /\ UNCHANGED csv_file

\* no cleaner
CleanIdle ==
    /\ csv_file = <<>>
    /\ clean_pass = 0
    /\ NewCleanerState

-----------------------------------------------------------------------------
(* csv_validate.py: classify_date, extract_service_codes and the two checks  *)
(* that use them.  The validator reads the file with csv.reader: rows is the *)
(* table of the file, every cell a str; an issue is [severity, code, column, *)
(* rows, examples] (its message is a text that holds the number of rows).    *)

\* classify_date(value)
classify_date(value) ==
    IF value = <<>> \/ strip(value) = <<>>
    THEN [ok |-> FALSE, repairable |-> FALSE, normalized_hint |-> None]
    ELSE on(strip(value), LAMBDA stripped :
         on(sub_date_dot(stripped, 4), LAMBDA normalized :
            IF normalized # stripped
            THEN [ok |-> FALSE, repairable |-> TRUE,
                  normalized_hint |-> normalized]
            ELSE IF strptime(stripped, "%d/%m/%Y") # NoDate
            THEN [ok |-> TRUE, repairable |-> FALSE, normalized_hint |-> None]
            ELSE IF strptime(stripped, "%Y-%m-%d") # NoDate
            THEN [ok |-> TRUE, repairable |-> FALSE, normalized_hint |-> None]
            ELSE [ok |-> FALSE, repairable |-> FALSE, normalized_hint |-> None]))

\* validate_dates(rows, header, issues): the issues it appends
validate_dates(rows) ==
    LET DATE_COLUMNS ==
            <<"ac_authorisationNotificationDate", "ac_authorisationEndDate",
              "ac_lastupdate">>
        date_cols == SelectSeq(DATE_COLUMNS, in_header)
        row_nums == [i \in 1..Len(rows) |-> i + 1]
        value(row_num, col) == strip(rows[row_num - 1][col])
        \* the row numbers of a column whose date is not ok and is, or is
        \* not, repairable
        rows_where(col, repairable) ==
            SelectSeq(row_nums, LAMBDA n :
                value(n, col) # <<>>
                /\ on(classify_date(value(n, col)), LAMBDA date_info :
                      ~date_info.ok /\ date_info.repairable = repairable))
        issue(col, repairable) ==
            on(rows_where(col, repairable), LAMBDA found :
               IF found = <<>> THEN <<>>
               ELSE <<[severity |-> IF repairable THEN "WARNING" ELSE "ERROR",
                       code |-> IF repairable THEN "DATE_NEEDS_NORMALIZATION"
                                ELSE "DATE_UNPARSABLE",
                       column |-> col,
                       rows |-> found,
                       examples |->
                           [k \in 1..Len(prefix(found, 3)) |->
                               IF repairable
                               THEN <<value(found[k], col),
                                      classify_date(value(found[k], col))
                                          .normalized_hint>>
                               ELSE value(found[k], col)]]>>)
    IN  flatten([k \in 1..Len(date_cols) |-> issue(date_cols[k], TRUE)])
        \o flatten([k \in 1..Len(date_cols) |-> issue(date_cols[k], FALSE)])

\* extract_service_codes(service_text): (valid_codes, has_suspicious)
extract_service_codes(service_text) ==
    LET \* re.split(r'[|;,]', service_text), each part stripped
        parts ==
            LET f[i \in 1..(Len(service_text) + 1)] ==
                    LET j == next_where(service_text, i,
                                        LAMBDA c : c \in {"|", ";", ","})
                    IN  IF j > Len(service_text)
                        THEN <<strip(SubSeq(service_text, i, Len(service_text)))>>
                        ELSE <<strip(SubSeq(service_text, i, j - 1))>> \o f[j + 1]
            IN  f[1]
        \* re.match(r'^([a-j])\.?\s*', part, re.IGNORECASE)
        matches(part) ==
            part # <<>> /\ IsLetter(part[1])
            /\ lower(SubSeq(part, 1, 1))[1]
                 \in {"a", "b", "c", "d", "e", "f", "g", "h", "i", "j"}
        \* re.search(r'[k-z]', part, re.IGNORECASE)
        has_k_to_z(part) ==
            \E m \in 1..Len(part) :
                IsLetter(part[m]) /\ ~matches(SubSeq(part, m, m))
    IN  IF service_text = <<>> \/ strip(service_text) = <<>>
        THEN [valid_codes |-> <<>>, has_suspicious |-> FALSE]
        ELSE on(parts, LAMBDA ps :
                [valid_codes |->
                     dedup(flatten([k \in 1..Len(ps) |->
                         IF matches(ps[k]) THEN <<lower(SubSeq(ps[k], 1, 1))>>
                         ELSE <<>>])),
                 has_suspicious |->
                     \E k \in 1..Len(ps) :
                         ps[k] # <<>> /\ ~matches(ps[k]) /\ has_k_to_z(ps[k])])

\* validate_service_codes with "if has_suspicious" for "elif has_suspicious":
\* a row of suspicious format is reported whether or not it has a valid code
validate_service_codes_mut(rows) ==
    LET row_nums == [i \in 1..Len(rows) |-> i + 1]
        value(row_num) == strip(rows[row_num - 1].ac_serviceCode)
        found_rows(suspicious) ==
            SelectSeq(row_nums, LAMBDA n :
                value(n) # <<>>
                /\ on(extract_service_codes(value(n)), LAMBDA found :
                      IF suspicious THEN found.has_suspicious
                      ELSE found.valid_codes = <<>>))
        issue(severity, code, found) ==
            IF found = <<>> THEN <<>>
            ELSE <<[severity |-> severity, code |-> code,
                    column |-> "ac_serviceCode", rows |-> found,
                    examples |-> [k \in 1..Len(prefix(found, 3)) |->
                                     prefix(value(found[k]), 100)]]>>
    IN  issue("ERROR", "SERVICE_CODE_INVALID", found_rows(FALSE))
        \o issue("WARNING", "SERVICE_CODE_SUSPICIOUS_FORMAT", found_rows(TRUE))

\* validate_service_codes(rows, header, issues): the issues it appends
validate_service_codes(rows) ==
    LET row_nums == [i \in 1..Len(rows) |-> i + 1]
        value(row_num) == strip(rows[row_num - 1].ac_serviceCode)
        invalid_rows ==
            SelectSeq(row_nums, LAMBDA n :
                value(n) # <<>>
                /\ extract_service_codes(value(n)).valid_codes = <<>>)
        suspicious_rows ==
            SelectSeq(row_nums, LAMBDA n :
                value(n) # <<>>
                /\ on(extract_service_codes(value(n)), LAMBDA found :
                      found.valid_codes # <<>> /\ found.has_suspicious))
        issue(severity, code, found) ==
            IF found = <<>> THEN <<>>
            ELSE <<[severity |-> severity, code |-> code,
                    column |-> "ac_serviceCode", rows |-> found,
                    examples |-> [k \in 1..Len(prefix(found, 3)) |->
                                     prefix(value(found[k]), 100)]]>>
    IN  IF ~in_header("ac_serviceCode") THEN <<>>
        ELSE issue("ERROR", "SERVICE_CODE_INVALID", invalid_rows)
             \o issue("WARNING", "SERVICE_CODE_SUSPICIOUS_FORMAT",
                      suspicious_rows)

\* validate_duplicate_lei(rows, header, issues) with issues = []
validate_duplicate_lei(rows) ==
    LET lei(i) == strip(rows[i].ae_lei)
        \* lines 419-427: the keys of lei_counts in the order they were added,
        \* and the row numbers kept for a key
        leis ==
            dedup(non_empty([i \in 1..Len(rows) |-> lei(i)]))
        rows_list(key) ==
            SelectSeq([i \in 1..Len(rows) |-> i + 1],
                      LAMBDA row_num : lei(row_num - 1) = key)
        \* line 429
        duplicates == SelectSeq(leis, LAMBDA key : Len(rows_list(key)) > 1)
        \* lines 432-434
        all_duplicate_rows ==
            flatten([k \in 1..Len(duplicates) |-> rows_list(duplicates[k])])
    IN  IF ~in_header("ae_lei") \/ duplicates = <<>> THEN <<>>
        ELSE <<[severity |-> "WARNING", code |-> "LEI_DUPLICATE",
                column |-> "ae_lei", rows |-> prefix(all_duplicate_rows, 20),
                examples |-> prefix(duplicates, 5)]>>

\* validate_encoding(rows, header, issues) with issues = []; an example
\* f"Row {row_num}, {col_name}: ...{context}..." is held as its three parts
validate_encoding(rows) ==
    LET \* value[max(0, idx - before):idx + after]
        context_at(value, idx, before, after) ==
            SubSeq(value, (IF idx - before > 0 THEN idx - before ELSE 0) + 1,
                   IF idx + after < Len(value) THEN idx + after ELSE Len(value))
        \* lines 676-680
        replacement_context(value) ==
            context_at(value,
                       IF find(value, ReplacementChar) # -1
                       THEN find(value, ReplacementChar)
                       ELSE find(value, ReplacementBytes), 10, 10)
        \* lines 688-692: the first pattern of the list that is in the value
        patterns ==
            <<<<"A~", "cur">>, <<"A~", "pil">>, <<"A~", "qtr">>, <<"A~">>,
                <<"A^">>>>
        pattern_context(value) ==
            LET k == CHOOSE k \in 1..Len(patterns) :
                         /\ contains(value, patterns[k])
                         /\ \A m \in 1..(k - 1) : ~contains(value, patterns[m])
            IN  context_at(value, find(value, patterns[k]), 10, 20)
        example(row_num, col_name, context) ==
            [row |-> row_num, column |-> col_name, context |-> context]
        \* lines 672-673 and 685-686: the row is noted, with an example while
        \* fewer than five are held
        noted(acc, row_num, col_name, context) ==
            [suspect_rows |-> Append(acc.suspect_rows, <<row_num, col_name>>),
             suspect_examples |->
                 IF Len(acc.suspect_examples) < 5
                 THEN Append(acc.suspect_examples,
                             example(row_num, col_name, context))
                 ELSE acc.suspect_examples]
        \* lines 664-694: the loop over the rows of one column from row i on;
        \* each break (lines 681, 694) ends the loop over the rows
        RECURSIVE scan_rows(_, _, _)
        scan_rows(col_name, i, acc) ==
            IF i > Len(rows) THEN acc
            ELSE LET value == rows[i][col_name]
                     room == Len(acc.suspect_examples) < 5
                     after_first ==
                         IF has_replacement(value)
                         THEN noted(acc, i + 1, col_name,
                                    replacement_context(value))
                         ELSE acc
                     misdecoded ==
                         contains(value, <<"A~">>) \/ contains(value, <<"A^">>)
                 IN  IF has_replacement(value) /\ room THEN after_first
                     ELSE IF misdecoded
                     THEN (IF Len(after_first.suspect_examples) < 5
                           THEN noted(after_first, i + 1, col_name,
                                      pattern_context(value))
                           ELSE scan_rows(col_name, i + 1,
                                    noted(after_first, i + 1, col_name, <<>>)))
                     ELSE scan_rows(col_name, i + 1, after_first)
        \* line 663: the loop over the columns of the header
        RECURSIVE scan_columns(_, _)
        scan_columns(k, acc) ==
            IF k > Len(df_header) THEN acc
            ELSE scan_columns(k + 1, scan_rows(df_header[k], 1, acc))
        found ==
            scan_columns(1, [suspect_rows |-> <<>>, suspect_examples |-> <<>>])
    IN  IF found.suspect_rows = <<>> THEN <<>>
        ELSE <<[severity |-> "WARNING", code |-> "ENCODING_SUSPECT",
                column |-> None,
                rows |-> [k \in 1..Len(prefix(found.suspect_rows, 20)) |->
                             found.suspect_rows[k][1]],
                examples |-> found.suspect_examples]>>

\* Issue.to_dict(max_examples) without the message
to_dict(issue, max_examples) ==
    [severity |-> issue.severity, code |-> issue.code,
     column |-> issue.column,
     rows |-> IF max_examples # 0 THEN prefix(issue.rows, max_examples)
              ELSE issue.rows,
     examples |-> IF max_examples # 0
                  THEN prefix(issue.examples, max_examples)
                  ELSE issue.examples]

\* files with suspect characters in more than one row
EncodingTables ==
    { <<[CleanRow EXCEPT !["ae_commercial_name"] = <<"C", "a", "f", "FFFD">>],
        [CleanRow EXCEPT !["ae_commercial_name"] = <<"M", "FFFD", "n", "c",
            "h", "e", "n", " ", "B", "a", "n", "k">>]>>,
      <<[CleanRow EXCEPT !["ae_website"] = <<"k", ".", "c", "o", "m", "FFFD">>],
        [CleanRow EXCEPT !["ae_commercial_name"] = <<"C", "a", "f", "FFFD">>]>>,
      <<[CleanRow EXCEPT !["ae_commercial_name"] = <<"B", "A~", "cur", "r">>],
        [CleanRow EXCEPT !["ae_address"] = <<"1", "A^", " ", "M", "a", "i",
            "n", " ", "S", "t">>]>>,
      <<[CleanRow EXCEPT !["ac_comments"] = <<"c", "a", "f", "FFFD">>]>> }

\* the files of the stage machine
StageTables == InputTables \cup EncodingTables

-----------------------------------------------------------------------------
(* one stage on a loaded file: a fixer of a new CSVCleaner called on its own *)
(* after load_csv (as tests/test_clean_csv.py calls them), or one check of   *)
(* the validator on the rows of the file                                     *)

StageInit ==
    /\ stage_file \in StageTables
    /\ stage_op = "loaded"
    /\ stage_out = <<>>

\* cleaner.fix_dates(): stage_out is the cleaner's [df, changes] after it
FixDates ==
    /\ stage_op = "loaded"
    /\ stage_op' = "fix_dates"
    /\ stage_out' = fix_dates([df |-> stage_file, changes |-> <<>>])
    /\ UNCHANGED stage_file

\* cleaner.fix_lei_format()
FixLeiFormat ==
    /\ stage_op = "loaded"
    /\ stage_op' = "fix_lei_format"
    /\ stage_out' = fix_lei_format([df |-> stage_file, changes |-> <<>>])
    /\ UNCHANGED stage_file

\* cleaner.normalize_country_codes(), and again on the table it leaves
NormalizeCountryCodes ==
    /\ stage_op \in {"loaded", "normalize_country_codes"}
    /\ stage_op' = IF stage_op = "loaded" THEN "normalize_country_codes"
                   ELSE "normalize_country_codes_twice"
    /\ stage_out' = normalize_country_codes(
                        IF stage_op = "loaded"
                        THEN [df |-> stage_file, changes |-> <<>>]
                        ELSE stage_out)
    /\ UNCHANGED stage_file

\* cleaner.fix_address_website_parsing()
FixAddressWebsiteParsing ==
    /\ stage_op = "loaded"
    /\ stage_op' = "fix_address_website_parsing"
    /\ stage_out' = fix_address_website_parsing(
                        [df |-> stage_file, changes |-> <<>>])
    /\ UNCHANGED stage_file

\* cleaner.normalize_service_codes()
NormalizeServiceCodes ==
    /\ stage_op = "loaded"
    /\ stage_op' = "normalize_service_codes"
    /\ stage_out' = normalize_service_codes(
                        [df |-> stage_file, changes |-> <<>>])
    /\ UNCHANGED stage_file

\* config/registers.py: RegisterType
RegisterType == {"casp", "other", "art", "emt", "ncasp"}

\* config/registers.py: REGISTERS, the required_columns of each RegisterConfig
REGISTERS ==
    [register \in RegisterType |->
        [required_columns |->
            IF register = "ncasp"
            THEN <<<<"a", "e", "_", "h", "o", "m", "e", "M", "e", "m", "b",
                "e", "r", "S", "t", "a", "t", "e">>>>
            ELSE <<<<"a", "e", "_", "l", "e", "i">>, <<"a", "e", "_", "l", "e",
                "i", "_", "n", "a", "m", "e">>,
                   <<"a", "e", "_", "h", "o", "m", "e", "M", "e", "m", "b",
                       "e", "r", "S", "t", "a", "t", "e">>>>]]

\* csv_validate.py: REQUIRED_COLUMNS
REQUIRED_COLUMNS ==
    <<<<"a", "e", "_", "l", "e", "i">>, <<"a", "c", "_", "s", "e", "r", "v",
        "i", "c", "e", "C", "o", "d", "e">>, <<"a", "c", "_", "s", "e", "r",
        "v", "i", "c", "e", "C", "o", "d", "e", "_", "c", "o", "u">>,
      <<"a", "c", "_", "a", "u", "t", "h", "o", "r", "i", "s", "a", "t", "i",
          "o", "n", "N", "o", "t", "i", "f", "i", "c", "a", "t", "i", "o", "n",
          "D", "a", "t", "e">>, <<"a", "c", "_", "l", "a", "s", "t", "u", "p",
          "d", "a", "t", "e">>>>

\* validate_schema(header, issues) with issues = []: the issues it appends
validate_schema(header) ==
    LET \* line 340
        missing_columns ==
            SelectSeq(REQUIRED_COLUMNS, LAMBDA col : col \notin Range(header))
        \* lines 350-357: the stripped names seen before in the header
        duplicates ==
            flatten([k \in 1..Len(header) |->
                IF \E m \in 1..(k - 1) : strip(header[m]) = strip(header[k])
                THEN <<strip(header[k])>> ELSE <<>>])
        \* lines 368-371
        whitespace_cols ==
            SelectSeq(header, LAMBDA col : col # strip(col))
        issue(severity, code, examples) ==
            [severity |-> severity, code |-> code, column |-> None,
             rows |-> <<>>, examples |-> examples]
    IN  (IF missing_columns # <<>>
         THEN <<issue("ERROR", "SCHEMA_MISSING_COLUMN", missing_columns)>>
         ELSE <<>>)
        \o (IF duplicates # <<>>
            THEN <<issue("ERROR", "SCHEMA_DUPLICATE_COLUMN", duplicates)>>
            ELSE <<>>)
        \o (IF whitespace_cols # <<>>
            THEN <<issue("WARNING", "SCHEMA_HEADER_WHITESPACE",
                         prefix(whitespace_cols, 5))>>
            ELSE <<>>)

\* headers of register files: the columns the importer and the register
\* configurations require, all or some of them, with a repeated and a padded
\* name
SchemaHeaders ==
    LET all == <<<<"a", "e", "_", "h", "o", "m", "e", "M", "e", "m", "b", "e",
        "r", "S", "t", "a", "t", "e">>, <<"a", "e", "_", "l", "e", "i", "_",
        "n", "a", "m", "e">>, <<"a", "e", "_", "l", "e", "i">>,
                 <<"a", "c", "_", "s", "e", "r", "v", "i", "c", "e", "C", "o",
                     "d", "e">>, <<"a", "c", "_", "s", "e", "r", "v", "i", "c",
                     "e", "C", "o", "d", "e", "_", "c", "o", "u">>,
                 <<"a", "c", "_", "a", "u", "t", "h", "o", "r", "i", "s", "a",
                     "t", "i", "o", "n", "N", "o", "t", "i", "f", "i", "c",
                     "a", "t", "i", "o", "n", "D", "a", "t", "e">>, <<"a", "c",
                     "_", "l", "a", "s", "t", "u", "p", "d", "a", "t", "e">>>>
        without(k) == SubSeq(all, 1, k - 1) \o SubSeq(all, k + 1, Len(all))
    IN  {all, REQUIRED_COLUMNS, SubSeq(all, 1, 3), SubSeq(all, 1, 1),
         all \o <<<<"a", "e", "_", "l", "e", "i">>>>,
         <<<<" ", "a", "e", "_", "l", "e", "i">>>> \o without(3)}
        \cup {without(k) : k \in 1..Len(all)}

\* validate_schema(header, issues) on the header of a register's file
ValidateSchema ==
    /\ stage_op = "loaded"
    /\ stage_op' = "validate_schema"
    /\ \E register \in RegisterType, header \in SchemaHeaders :
           stage_out' = [register |-> register, header |-> header,
                         issues |-> validate_schema(header)]
    /\ UNCHANGED stage_file

\* validate_dates(rows, header, issues) with issues = []
ValidateDates ==
    /\ stage_op = "loaded"
    /\ stage_op' = "validate_dates"
    /\ stage_out' = validate_dates(stage_file)
    /\ UNCHANGED stage_file

\* validate_service_codes(rows, header, issues) with issues = []
ValidateServiceCodes ==
    /\ stage_op = "loaded"
    /\ stage_op' = "validate_service_codes"
    /\ stage_out' = validate_service_codes(stage_file)
    /\ UNCHANGED stage_file

\* validate_duplicate_lei(rows, header, issues) with issues = []
ValidateDuplicateLei ==
    /\ stage_op = "loaded"
    /\ stage_op' = "validate_duplicate_lei"
    /\ stage_out' = validate_duplicate_lei(stage_file)
    /\ UNCHANGED stage_file

\* validate_encoding(rows, header, issues) with issues = []
ValidateEncoding ==
    /\ stage_op = "loaded"
    /\ stage_op' = "validate_encoding"
    /\ stage_out' = validate_encoding(stage_file)
    /\ UNCHANGED stage_file

\* the --max-examples values of scripts/validate_csv.py: 0, 1 and the default
MaxExamples == {0, 1, 5}

\* validate_csv, line 745: the issues of a check as the report holds them
ReportIssues ==
    /\ stage_op \in {"validate_dates", "validate_service_codes",
                     "validate_duplicate_lei", "validate_encoding"}
    /\ stage_op' = "report"
    /\ \E max_examples \in MaxExamples :
           stage_out' =
               [check |-> stage_op, max_examples |-> max_examples,
                found |-> stage_out,
                issues |-> [k \in 1..Len(stage_out) |->
                               to_dict(stage_out[k], max_examples)]]
    /\ UNCHANGED stage_file

StageIdle ==
    stage_file = <<>> /\ stage_op = "idle" /\ stage_out = <<>>

-----------------------------------------------------------------------------
(* remediation/llm_client.py: GeminiLLMClient.generate_patch *)

GEMINI_MODELS ==
    << <<"gemini-3-flash-preview">>, <<"gemini-2.5-flash">>,
       <<"gemini-2.5-flash-lite">> >>

\* the longest task list the model hands to generate_patch
MaxLLMTasks == 2

LLMTask(k) ==
    [task_id |-> <<"task", k>>,
     task_type |-> IF k = 1 THEN "ENCODING_FIX" ELSE "DATE_FIX",
     current_value |-> <<"o", "l", "d">>]

\* the pieces of a response text besides JSON objects and other text: a
\* newline, the opening fence with the json tag, a bare fence of three
\* backticks
NL == [t |-> "NL"]
FenceJson == [t |-> "fence_json"]
Fence == [t |-> "fence"]

\* what generate_content may do for one task: raise, answer without
\* candidates, or answer with a text
Responses ==
    LET \* the JSON objects a model may answer with: the full contract, an
        \* object with only proposed_value, one without risk_level, a risk
        \* level and a transformation type outside the enums, a confidence
        \* above 1
        JsonFull ==
            [proposed_value |-> <<"n", "e", "w">>, confidence |-> 95,
             reasoning |-> <<"r">>, transformation_type |-> "ENCODING_FIX",
             risk_level |-> "LOW"]
        JsonPartial == [proposed_value |-> <<"n", "e", "w">>]
        JsonNoRisk ==
            [k \in DOMAIN JsonFull \ {"risk_level"} |-> JsonFull[k]]
        JsonBadEnum == [JsonFull EXCEPT !.risk_level = "CRITICAL"]
        JsonBadType == [JsonFull EXCEPT !.transformation_type = "ROW_DELETE"]
        JsonBadConfidence == [JsonFull EXCEPT !.confidence = 150]
        \* text that is not JSON, and a JSON object
        Junk == [t |-> "junk"]
        Json(data) == [t |-> "json", data |-> data]
    IN  { [kind |-> "raise", text |-> <<>>],
          [kind |-> "no_candidates", text |-> <<>>],
          [kind |-> "text", text |-> <<NL>>],
          [kind |-> "text", text |-> <<FenceJson, NL, Fence>>],
          [kind |-> "text", text |-> <<Junk>>],
          [kind |-> "text", text |-> <<Json(JsonFull)>>],
          [kind |-> "text",
           text |-> <<FenceJson, NL, Json(JsonFull), NL, Fence>>],
          [kind |-> "text", text |-> <<Json(JsonPartial)>>],
          [kind |-> "text", text |-> <<Json(JsonNoRisk)>>],
          [kind |-> "text", text |-> <<Json(JsonBadEnum)>>],
          [kind |-> "text", text |-> <<Json(JsonBadType)>>],
          [kind |-> "text", text |-> <<Json(JsonBadConfidence)>>] }

\* str.strip() of a response text: newlines are its only whitespace
text_strip(text) ==
    LET kept == {i \in 1..Len(text) : text[i] # NL}
        first == CHOOSE i \in kept : \A j \in kept : i <= j
        last == CHOOSE i \in kept : \A j \in kept : j <= i
    IN  IF kept = {} THEN <<>> ELSE SubSeq(text, first, last)

\* lines 141-147: remove a Markdown code fence around the text
strip_fences(text) ==
    LET a == IF text # <<>> /\ Head(text) = FenceJson THEN Tail(text) ELSE text
        b == IF a # <<>> /\ Head(a) = Fence THEN Tail(a) ELSE a
        c == IF b # <<>> /\ b[Len(b)] = Fence THEN SubSeq(b, 1, Len(b) - 1) ELSE b
    IN  text_strip(c)

\* json.loads succeeds on a text that is one JSON object
json_loads_ok(text) == Len(text) = 1 /\ text[1].t = "json"

\* dict.get(key, default)
dict_get(data, key, default) == IF key \in DOMAIN data THEN data[key] ELSE default

\* lines 158-165: the PatchProposal built from the parsed object, missing keys
\* taking the code's defaults
build_proposal(task, data) ==
    [task_id |-> task.task_id,
     proposed_value |-> dict_get(data, "proposed_value", task.current_value),
     confidence |-> dict_get(data, "confidence", 50),
     reasoning |-> dict_get(data, "reasoning", <<>>),
     transformation_type |-> dict_get(data, "transformation_type", task.task_type),
     risk_level |-> dict_get(data, "risk_level", "MEDIUM")]

\* the enum constructors and the pydantic field constraints accept the proposal
proposal_valid(q) ==
    /\ q.transformation_type \in TransformationType
    /\ q.risk_level \in RiskLevel
    /\ q.confidence >= 0 /\ q.confidence <= 100

\* lines 118-172 for one response: the proposal appended, or none (the task
\* is skipped)
parse_response(task, response) ==
    IF response.kind # "text" THEN <<>>
    ELSE LET first == text_strip(response.text)
         IN  IF first = <<>> THEN <<>>
             ELSE LET cleaned == strip_fences(first)
                  IN  IF cleaned = <<>> THEN <<>>
                      ELSE IF ~json_loads_ok(cleaned) THEN <<>>
                      ELSE LET q == build_proposal(task, cleaned[1].data)
                           IN  IF proposal_valid(q) THEN <<q>> ELSE <<>>

\* self.models is GEMINI_MODELS.copy(), an attribute a caller may shorten
ModelLists == {SubSeq(GEMINI_MODELS, 1, n) : n \in 0..Len(GEMINI_MODELS)}

\* no generate_content call has been made
NoResponse == [kind |-> "no_call", text |-> <<>>]

NoPatch == [model_name |-> None, tasks |-> <<>>,
            metadata |-> [models_tried |-> <<>>, model_used |-> None,
                          tasks_processed |-> 0, tasks_total |-> 0]]

LLMInit ==
    /\ models \in ModelLists
    /\ \E n \in 0..MaxLLMTasks : llm_tasks = [k \in 1..n |-> LLMTask(k)]
    /\ model_idx = 0
    /\ task_idx = 0
    /\ used_model = None
    /\ proposals = <<>>
    /\ calls = <<>>
    /\ last_response = NoResponse
    /\ llm_patch = NoPatch
    /\ llm_pc = "models"

\* for model_name in self.models: the next model is taken (lines 111-114)
NextModel ==
    /\ llm_pc = "models"
    /\ model_idx < Len(models)
    /\ model_idx' = model_idx + 1
    /\ used_model' = models[model_idx + 1]
    /\ task_idx' = 0
    /\ llm_pc' = "tasks"
    /\ UNCHANGED <<models, llm_tasks, proposals, calls, last_response, llm_patch>>

\* a failed task that ends the model's task loop
ProcessTask_mut(response) ==
    /\ llm_pc = "tasks"
    /\ task_idx < Len(llm_tasks)
    /\ LET got == parse_response(llm_tasks[task_idx + 1], response)
       IN  /\ proposals' = proposals \o got
           /\ calls' = Append(calls, [model |-> used_model, task |-> task_idx + 1,
                                      ok |-> got # <<>>])
           /\ task_idx' = IF got = <<>> THEN Len(llm_tasks) ELSE task_idx + 1
    /\ last_response' = response
    /\ UNCHANGED <<models, llm_tasks, model_idx, used_model, llm_patch, llm_pc>>

\* for task in tasks: one generate_content call and its parse (lines 117-172)
ProcessTask(response) ==
    /\ llm_pc = "tasks"
    /\ task_idx < Len(llm_tasks)
    /\ LET got == parse_response(llm_tasks[task_idx + 1], response)
       IN  /\ proposals' = proposals \o got
           /\ calls' = Append(calls, [model |-> used_model, task |-> task_idx + 1,
                                      ok |-> got # <<>>])
    /\ task_idx' = task_idx + 1
    /\ last_response' = response
    /\ UNCHANGED <<models, llm_tasks, model_idx, used_model, llm_patch, llm_pc>>

\* a model loop that goes on to the next model whatever it has collected
EndModel_mut ==
    /\ llm_pc = "tasks"
    /\ task_idx = Len(llm_tasks)
    /\ llm_pc' = "models"
    /\ UNCHANGED <<models, llm_tasks, model_idx, task_idx, used_model, proposals,
                   calls, last_response, llm_patch>>

\* lines 174-180: after the model's tasks, break if there is a proposal, else
\* go on to the next model
EndModel ==
    /\ llm_pc = "tasks"
    /\ task_idx = Len(llm_tasks)
    /\ llm_pc' = IF proposals # <<>> THEN "after" ELSE "models"
    /\ UNCHANGED <<models, llm_tasks, model_idx, task_idx, used_model, proposals,
                   calls, last_response, llm_patch>>

\* the model list is exhausted
EndModels ==
    /\ llm_pc = "models"
    /\ model_idx = Len(models)
    /\ llm_pc' = "after"
    /\ UNCHANGED <<models, llm_tasks, model_idx, task_idx, used_model, proposals,
                   calls, last_response, llm_patch>>

\* an ending that raises whenever no proposal was generated
ReturnPatch_mut ==
    /\ llm_pc = "after"
    /\ IF used_model = None \/ proposals = <<>>
       THEN llm_pc' = "raised" /\ UNCHANGED llm_patch
       ELSE /\ llm_pc' = "returned"
            /\ llm_patch' = [model_name |-> used_model, tasks |-> proposals,
                             metadata |-> [models_tried |-> models,
                                           model_used |-> used_model,
                                           tasks_processed |-> Len(proposals),
                                           tasks_total |-> Len(llm_tasks)]]
    /\ UNCHANGED <<models, llm_tasks, model_idx, task_idx, used_model, proposals,
                   calls, last_response>>

\* an ending that names the first model of the list in the patch
ReturnPatch_first ==
    /\ llm_pc = "after"
    /\ IF used_model = None
       THEN llm_pc' = "raised" /\ UNCHANGED llm_patch
       ELSE /\ llm_pc' = "returned"
            /\ llm_patch' = [model_name |-> models[1], tasks |-> proposals,
                             metadata |-> [models_tried |-> models,
                                           model_used |-> models[1],
                                           tasks_processed |-> Len(proposals),
                                           tasks_total |-> Len(llm_tasks)]]
    /\ UNCHANGED <<models, llm_tasks, model_idx, task_idx, used_model, proposals,
                   calls, last_response>>

\* lines 187-207: raise RuntimeError if no model was taken, else return the
\* patch
ReturnPatch ==
    /\ llm_pc = "after"
    /\ IF used_model = None
       THEN llm_pc' = "raised" /\ UNCHANGED llm_patch
       ELSE /\ llm_pc' = "returned"
            /\ llm_patch' = [model_name |-> used_model, tasks |-> proposals,
                             metadata |-> [models_tried |-> models,
                                           model_used |-> used_model,
                                           tasks_processed |-> Len(proposals),
                                           tasks_total |-> Len(llm_tasks)]]
    /\ UNCHANGED <<models, llm_tasks, model_idx, task_idx, used_model, proposals,
                   calls, last_response>>

LLMIdle ==
    /\ models = GEMINI_MODELS /\ llm_tasks = <<>> /\ model_idx = 0 /\ task_idx = 0
    /\ used_model = None /\ proposals = <<>> /\ calls = <<>>
    /\ last_response = NoResponse /\ llm_patch = NoPatch /\ llm_pc = "idle"

SpecLLMInit == LLMInit /\ PolicyIdle /\ PatchIdle /\ CleanIdle /\ GenIdle /\ StageIdle

LLMNext ==
    \/ NextModel /\ UNCHANGED <<polVars, patchVars, cleanVars, genVars, stageVars>>
    \/ (\E response \in Responses : ProcessTask(response))
          /\ UNCHANGED <<polVars, patchVars, cleanVars, genVars, stageVars>>
    \/ EndModel /\ UNCHANGED <<polVars, patchVars, cleanVars, genVars, stageVars>>
    \/ EndModels /\ UNCHANGED <<polVars, patchVars, cleanVars, genVars, stageVars>>
    \/ ReturnPatch /\ UNCHANGED <<polVars, patchVars, cleanVars, genVars, stageVars>>

SpecLLM == SpecLLMInit /\ [][LLMNext]_vars

SpecPatchInit == PatchInit /\ PolicyIdle /\ LLMIdle /\ CleanIdle /\ GenIdle /\ StageIdle

PatchNext ==
    \/ (\E p \in Proposals : ProcessProposal(p)) /\ UNCHANGED <<polVars, llmVars, cleanVars, genVars, stageVars>>
    \/ ReturnResult /\ UNCHANGED <<polVars, llmVars, cleanVars, genVars, stageVars>>

SpecPatch == SpecPatchInit /\ [][PatchNext]_vars

-----------------------------------------------------------------------------
(* one call of RemediationPolicy.validate_proposal and one of             *)
(* RemediationPolicy.can_auto_apply on drawn arguments                    *)

PolicyCalls ==
    LET PolicyValues ==
            { <<"L", "1">>, <<"L", "1", ".">>, <<"L", "2">>, <<" ", "L", "1">> }
    IN  [proposal : [task_id : {<<"task", 1>>}, proposed_value : PolicyValues,
                     confidence : {0, 49, 50, 51, 90, 100},
                     risk_level : RiskLevel,
                     transformation_type : TransformationType],
         current_value : PolicyValues,
         column : {"ae_lei", "ae_address"},
         threshold : {0, 50, DEFAULT_THRESHOLD, 100}]

PolicyInit ==
    /\ pol_call \in PolicyCalls
    /\ pol_result = [called |-> FALSE, accepted |-> FALSE, reason |-> None]
    /\ pol_auto = [called |-> FALSE, result |-> FALSE]

ValidateProposal ==
    /\ ~pol_result.called
    /\ LET verdict == validate_proposal(pol_call.proposal, pol_call.current_value,
                                        pol_call.column)
       IN  pol_result' = [called |-> TRUE, accepted |-> verdict.accepted,
                          reason |-> verdict.reason]
    /\ UNCHANGED <<pol_call, pol_auto>>

\* RemediationPolicy.can_auto_apply(proposal, auto_apply_confidence_threshold)
CanAutoApply ==
    /\ ~pol_auto.called
    /\ pol_auto' = [called |-> TRUE,
                    result |-> can_auto_apply(pol_call.proposal,
                                              pol_call.threshold)]
    /\ UNCHANGED <<pol_call, pol_result>>

SpecPolicyInit == PolicyInit /\ PatchIdle /\ LLMIdle /\ CleanIdle /\ GenIdle /\ StageIdle

PolicyNext ==
    \/ ValidateProposal /\ UNCHANGED <<patchVars, llmVars, cleanVars, genVars, stageVars>>
    \/ CanAutoApply /\ UNCHANGED <<patchVars, llmVars, cleanVars, genVars, stageVars>>

SpecPolicy == SpecPolicyInit /\ [][PolicyNext]_vars

-----------------------------------------------------------------------------
(* the runs of clean_csv.py on one file *)

SpecCleanInit == CleanInit /\ PolicyIdle /\ PatchIdle /\ LLMIdle /\ GenIdle /\ StageIdle

CleanNext ==
    \/ LoadCsv /\ UNCHANGED <<polVars, patchVars, llmVars, genVars, stageVars>>
    \/ LoadCsvFails /\ UNCHANGED <<polVars, patchVars, llmVars, genVars, stageVars>>
    \/ FixAllIssues /\ UNCHANGED <<polVars, patchVars, llmVars, genVars, stageVars>>
    \/ GenerateReport /\ UNCHANGED <<polVars, patchVars, llmVars, genVars, stageVars>>
    \/ SaveCleanCsv /\ UNCHANGED <<polVars, patchVars, llmVars, genVars, stageVars>>
    \/ NewCleaner /\ UNCHANGED <<polVars, patchVars, llmVars, genVars, stageVars>>

SpecClean == SpecCleanInit /\ [][CleanNext]_vars

-----------------------------------------------------------------------------
(* one call of RemediationTaskGenerator.generate_tasks *)

SpecGenInit ==
    GenInit /\ PolicyIdle /\ PatchIdle /\ LLMIdle /\ CleanIdle /\ StageIdle

GenNext ==
    \/ ProcessIssue /\ UNCHANGED <<polVars, patchVars, llmVars, cleanVars, stageVars>>
    \/ ReturnTasks /\ UNCHANGED <<polVars, patchVars, llmVars, cleanVars, stageVars>>

SpecGen == SpecGenInit /\ [][GenNext]_vars

-----------------------------------------------------------------------------
(* one stage of the cleaner, or one check of the validator, on a file *)

SpecStageInit ==
    StageInit /\ PolicyIdle /\ PatchIdle /\ LLMIdle /\ CleanIdle /\ GenIdle

StageNext ==
    \/ FixDates /\ UNCHANGED <<polVars, patchVars, llmVars, cleanVars, genVars>>
    \/ FixLeiFormat
          /\ UNCHANGED <<polVars, patchVars, llmVars, cleanVars, genVars>>
    \/ NormalizeCountryCodes
          /\ UNCHANGED <<polVars, patchVars, llmVars, cleanVars, genVars>>
    \/ FixAddressWebsiteParsing
          /\ UNCHANGED <<polVars, patchVars, llmVars, cleanVars, genVars>>
    \/ NormalizeServiceCodes
          /\ UNCHANGED <<polVars, patchVars, llmVars, cleanVars, genVars>>
    \/ ValidateSchema
          /\ UNCHANGED <<polVars, patchVars, llmVars, cleanVars, genVars>>
    \/ ValidateDates
          /\ UNCHANGED <<polVars, patchVars, llmVars, cleanVars, genVars>>
    \/ ValidateServiceCodes
          /\ UNCHANGED <<polVars, patchVars, llmVars, cleanVars, genVars>>
    \/ ValidateDuplicateLei
          /\ UNCHANGED <<polVars, patchVars, llmVars, cleanVars, genVars>>
    \/ ValidateEncoding
          /\ UNCHANGED <<polVars, patchVars, llmVars, cleanVars, genVars>>
    \/ ReportIssues
          /\ UNCHANGED <<polVars, patchVars, llmVars, cleanVars, genVars>>

SpecStage == SpecStageInit /\ [][StageNext]_vars

-----------------------------------------------------------------------------
(* the claims *)

C2_Eligible(p) ==
    p.risk_level = "LOW" /\ p.confidence >= flags.threshold

\* the proposal reaches the approval gate: its task and row are found and the
\* policy accepts it
C2_PolicyValid(p) ==
    /\ task_map_has(p.task_id)
    /\ LET task == task_map_get(p.task_id)
           found == find_row_by_identifier(df, df_columns, task.row_identifier)
       IN  /\ found.kind = "found"
           /\ validate_proposal(p,
                  stripped_cell(row_get(df[found.index], task.column)),
                  task.column).accepted

\* C2: with require_approval, a step of the run applies its proposal only if
\* auto_apply_low_risk is set and the proposal is eligible; every other
\* policy-valid proposal is rejected with "Requires manual approval" and the
\* table is left as it was; with the default flags nothing is ever applied.
C2_ApprovalGate ==
    [][ (flags.require_approval /\ n_proposals' = n_proposals + 1) =>
           /\ applied_changes' # applied_changes =>
                (flags.auto_apply_low_risk /\ C2_Eligible(cur_proposal'))
           /\ (C2_PolicyValid(cur_proposal')
               /\ ~(flags.auto_apply_low_risk /\ C2_Eligible(cur_proposal'))) =>
                /\ df' = df
                /\ applied_changes' = applied_changes
                /\ Len(rejected_changes') = Len(rejected_changes) + 1
                /\ rejected_changes'[Len(rejected_changes')].reason
                     = <<"Requires manual approval">>
                /\ rejected_changes'[Len(rejected_changes')].task_id
                     = cur_proposal'.task_id
           /\ ~flags.auto_apply_low_risk =>
                (applied_changes' = <<>> /\ df' = df_before) ]_vars

\* a policy-valid medium-risk proposal at the threshold, held back although
\* auto_apply_low_risk is set, the table untouched
C2_Witness ==
    /\ patch_pc = "done"
    /\ flags.require_approval /\ flags.auto_apply_low_risk
    /\ df = df_before
    /\ \E k \in DOMAIN rejected_changes :
         /\ rejected_changes[k].reason = <<"Requires manual approval">>
         /\ rejected_changes[k].risk_level = "MEDIUM"
         /\ rejected_changes[k].confidence = 90

\* the applied changes of one cell, in the order they were applied
C3_ChangesOf(i, c) ==
    {k \in DOMAIN applied_changes :
        applied_changes[k].row_index = i /\ applied_changes[k].column = c}

\* C3 as claimed: every changed cell has an applied change; each record's
\* old_value is the cell's value right before the write and its new_value the
\* proposed value; the cell ends as the last applied new_value.
C3_AuditExact ==
    /\ \A i \in DOMAIN df : \A c \in DOMAIN df[i] :
         row_get(df_before[i], c) # df[i][c] => C3_ChangesOf(i, c) # {}
    /\ \A k \in DOMAIN applied_changes :
         /\ applied_changes[k].old_value = writes[k].before
         /\ applied_changes[k].new_value = writes[k].proposal.proposed_value
    /\ \A i \in DOMAIN df : \A c \in DOMAIN df[i] :
         C3_ChangesOf(i, c) # {} =>
            LET last == CHOOSE k \in C3_ChangesOf(i, c) :
                            \A j \in C3_ChangesOf(i, c) : j <= k
            IN  df[i][c] = applied_changes[last].new_value

\* C3 as amended: the same, the old_value being the cell's value right before
\* the write with its surrounding whitespace stripped, empty for a missing
\* value.
C3_AuditStripped ==
    /\ \A i \in DOMAIN df : \A c \in DOMAIN df[i] :
         row_get(df_before[i], c) # df[i][c] => C3_ChangesOf(i, c) # {}
    /\ \A k \in DOMAIN applied_changes :
         /\ applied_changes[k].row_index = writes[k].row_index
         /\ applied_changes[k].column = writes[k].column
         /\ applied_changes[k].old_value =
               (IF writes[k].before \in {NaN, None} THEN <<>>
                ELSE strip(writes[k].before))
         /\ applied_changes[k].new_value = writes[k].proposal.proposed_value
    /\ \A i \in DOMAIN df : \A c \in DOMAIN df[i] :
         C3_ChangesOf(i, c) # {} =>
            LET last == CHOOSE k \in C3_ChangesOf(i, c) :
                            \A j \in C3_ChangesOf(i, c) : j <= k
            IN  df[i][c] = applied_changes[last].new_value

\* two proposals of one patch applied to the same cell, the second over a
\* value that ends in a space
C3_Witness ==
    /\ patch_pc = "done"
    /\ Len(applied_changes) = 2
    /\ applied_changes[1].row_index = applied_changes[2].row_index
    /\ applied_changes[1].column = applied_changes[2].column
    /\ applied_changes[1].new_value = <<"c", " ">>
    /\ applied_changes[2].old_value = <<"c">>
    /\ df[applied_changes[2].row_index][applied_changes[2].column]
         = applied_changes[2].new_value

-----------------------------------------------------------------------------
(* claims about GeminiLLMClient.generate_patch *)

\* the position of a model in self.models
C5_ModelPos(name) == CHOOSE i \in 1..Len(models) : models[i] = name

\* the task positions a model has been called for
C5_CalledTasks(name) == {calls[k].task : k \in {j \in 1..Len(calls) : calls[j].model = name}}

\* C5: the calls go through the model list in its order, starting from the
\* first model and never returning to a model or a task; a call to a later
\* model is made only when no earlier call produced a valid proposal, so no
\* model is tried after the first one that produced a proposal.
C5_FallbackOrder ==
    /\ calls # <<>> => calls[1] = [model |-> models[1], task |-> 1, ok |-> calls[1].ok]
    /\ \A k \in 1..(Len(calls) - 1) :
          \/ /\ calls[k + 1].model = calls[k].model
             /\ calls[k + 1].task = calls[k].task + 1
          \/ /\ C5_ModelPos(calls[k + 1].model) = C5_ModelPos(calls[k].model) + 1
             /\ calls[k + 1].task = 1
             /\ \A j \in 1..k : ~calls[j].ok
    /\ \A j \in 1..Len(calls) : \A k \in 1..Len(calls) :
          (j < k /\ calls[j].ok) => calls[k].model = calls[j].model

\* the second model was called after the first produced nothing, it produced
\* a proposal, and the third model was never called
C5_Witness ==
    /\ llm_pc = "returned"
    /\ models = GEMINI_MODELS
    /\ C5_CalledTasks(GEMINI_MODELS[1]) # {}
    /\ \E k \in 1..Len(calls) : calls[k].model = GEMINI_MODELS[2] /\ calls[k].ok
    /\ C5_CalledTasks(GEMINI_MODELS[3]) = {}
    /\ llm_patch.tasks # <<>>

C7_OkCalls == SelectSeq(calls, LAMBDA c : c.ok)

\* C7: the proposals collected are exactly those of the calls that succeeded,
\* in call order, whatever failed in between; a model that has finished its
\* task loop has been called for every task; the returned patch carries
\* the collected proposals.
C7_TaskFailureIsolated ==
    /\ Len(proposals) = Len(C7_OkCalls)
    /\ \A i \in 1..Len(proposals) :
          proposals[i].task_id = llm_tasks[C7_OkCalls[i].task].task_id
    /\ \A k \in 1..Len(calls) :
          (calls[k].model # used_model \/ llm_pc # "tasks") =>
              C5_CalledTasks(calls[k].model) = 1..Len(llm_tasks)
    /\ llm_pc = "returned" => llm_patch.tasks = proposals

\* the first task of the model that was used failed, a later task of the same
\* model succeeded, and its proposal is in the returned patch
C7_Witness ==
    /\ llm_pc = "returned"
    /\ \E j \in 1..Len(calls) : \E k \in 1..Len(calls) :
          /\ j < k
          /\ calls[j].model = used_model /\ ~calls[j].ok
          /\ calls[k].model = used_model /\ calls[k].ok
          /\ \E i \in 1..Len(llm_patch.tasks) :
                llm_patch.tasks[i].task_id = llm_tasks[calls[k].task].task_id

\* a later run of the cleaner on the file an earlier run saved has run its
\* fixers
C8_LaterPass ==
    clean_pass >= 2 /\ clean_pc \in {"fixed", "reported", "saved"}

\* C8: a second run of fix_all_issues, on the output of a first run, records
\* zero Change entries, for every input table.
C8_SecondPassNoChanges == C8_LaterPass => cleaner_changes = <<>>

\* C9: the cleaned table is a fixed point of cleaning: fix_all_issues on its
\* own output changes no cell value, for every input table.  In a later
\* run csv_file is the output of the run before, the table that was loaded.
C9_CleanIsFixedPoint ==
    (clean_pass >= 2 /\ clean_pc \in {"fixed", "reported"}) =>
        cleaner_df[1] = csv_file

-----------------------------------------------------------------------------
(* claims about RemediationTaskGenerator.generate_tasks *)

\* C11: generate_tasks never returns a task whose column is ae_lei, whatever
\* issue code, severity, column and rows the issues of the report carry.
C11_NoLeiTask ==
    \A k \in DOMAIN gen_tasks : gen_tasks[k].column # "ae_lei"

\* the tasks generated for the issue at position q of the report
C17_TasksOfIssue(q) == {k \in DOMAIN gen_tasks : gen_tasks[k].metadata.issue = q}

\* C17: generate_tasks holds at most max_tasks tasks in total and at most 5
\* per issue, and no task has an empty current_value or a row number outside
\* the table.
C17_TaskLimits ==
    /\ Len(gen_tasks) <= gen_call.max_tasks
    /\ \A q \in DOMAIN gen_call.issues : Cardinality(C17_TasksOfIssue(q)) <= 5
    /\ \A k \in DOMAIN gen_tasks :
          /\ gen_tasks[k].current_value # <<>>
          /\ gen_tasks[k].metadata.row_index >= 0
          /\ gen_tasks[k].metadata.row_index < Len(gen_call.df)
          /\ gen_tasks[k].metadata.row_number = gen_tasks[k].metadata.row_index + 2

\* a returned list cut by max_tasks, one issue of which gave five tasks out
\* of six rows, and whose report names a row without a value and rows
\* outside the table
C17_Witness ==
    /\ gen_pc = "returned"
    /\ Len(gen_tasks) = gen_call.max_tasks
    /\ gen_call.max_tasks > 5
    /\ \E q \in DOMAIN gen_call.issues :
          /\ Cardinality(C17_TasksOfIssue(q)) = 5
          /\ Len(gen_call.issues[q].rows) > 5
    /\ \E q \in DOMAIN gen_call.issues :
          /\ gen_call.issues[q].column = "ae_address"
          /\ C17_TasksOfIssue(q) # {}
          /\ \E j \in 1..5 :
                stripped_cell(gen_call.df[gen_call.issues[q].rows[j] - 1].ae_address)
                    = <<>>

\* C18: in every generated task each context value has at most 500
\* characters, the context values have at most 2000 characters in total,
\* and current_value has at most 1000 characters.
C18_ContextCaps ==
    \A k \in DOMAIN gen_tasks :
        LET context == gen_tasks[k].context
            total[n \in 0..Len(context)] ==
                IF n = 0 THEN 0 ELSE total[n - 1] + Len(context[n][2])
        IN  /\ \A n \in DOMAIN context : Len(context[n][2]) <= 500
            /\ total[Len(context)] <= 2000
            /\ Len(gen_tasks[k].current_value) <= 1000

-----------------------------------------------------------------------------
(* claims about RemediationPolicy.can_auto_apply *)

\* C12: can_auto_apply returns true exactly when the proposal's risk level
\* is LOW and its confidence is at least the threshold; it is false for a
\* MEDIUM or HIGH risk level at every confidence, whatever the
\* transformation type.
C12_AutoApplyExactly ==
    pol_auto.called =>
        /\ pol_auto.result <=>
              (pol_call.proposal.risk_level = "LOW"
               /\ pol_call.proposal.confidence >= pol_call.threshold)
        /\ pol_call.proposal.risk_level \in {"MEDIUM", "HIGH"} => ~pol_auto.result

\* a HIGH risk proposal of full confidence, above the threshold, refused
C12_Witness ==
    /\ pol_auto.called /\ ~pol_auto.result
    /\ pol_call.proposal.risk_level = "HIGH"
    /\ pol_call.proposal.confidence = 100
    /\ pol_call.threshold = 50
    /\ pol_call.proposal.transformation_type = "ENCODING_FIX"

\* C13: every date of the form DD/MM/.YYYY, with an optional space before the
\* dot (DD/MM/YYYY being a date of the calendar), is rewritten to DD/MM/YYYY by
\* fix_dates, and validate_dates reports its row under the WARNING
\* DATE_NEEDS_NORMALIZATION of the column and never under DATE_UNPARSABLE.
C13_DotDatesRepaired ==
    LET col == "ac_authorisationNotificationDate"
        dot_at(v) ==
            IF Len(v) = 11 /\ v[7] = "." THEN 7
            ELSE IF Len(v) = 12 /\ v[7] = " " /\ v[8] = "." THEN 8
            ELSE 0
        rewritten(v) == SubSeq(v, 1, 6) \o SubSeq(v, dot_at(v) + 1, Len(v))
        is_dot_date(v) ==
            /\ dot_at(v) # 0
            /\ \A k \in {1, 2, 4, 5} \cup ((dot_at(v) + 1)..Len(v)) :
                   IsDigit(v[k])
            /\ v[3] = "/" /\ v[6] = "/"
            /\ strptime(rewritten(v), "%d/%m/%Y") # NoDate
        reported(code, row_num) ==
            \E q \in 1..Len(stage_out) :
                /\ stage_out[q].code = code
                /\ stage_out[q].column = col
                /\ row_num \in Range(stage_out[q].rows)
    IN  \A i \in 1..Len(stage_file) :
            is_dot_date(stage_file[i][col]) =>
                /\ stage_op = "fix_dates" =>
                       stage_out.df[i][col] = rewritten(stage_file[i][col])
                /\ stage_op = "validate_dates" =>
                       /\ reported("DATE_NEEDS_NORMALIZATION", i + 1)
                       /\ \A q \in 1..Len(stage_out) :
                              stage_out[q].code = "DATE_NEEDS_NORMALIZATION"
                                  => stage_out[q].severity = "WARNING"
                       /\ ~reported("DATE_UNPARSABLE", i + 1)

\* C14: after fix_lei_format, every row whose LEI is not empty (and has no
\* surrounding whitespace) holds an LEI of 20 characters of A-Z and 0-9, or
\* holds the LEI it held before with exactly one LEI_WARNING change recorded
\* for the row; and the new value of every LEI_EXCEL_NOTATION_FIXED change
\* has exactly 20 characters.
C14_LeiValidOrUntouched ==
    LET valid(lei) ==
            Len(lei) = 20 /\ \A k \in 1..20 : IsUpper(lei[k]) \/ IsDigit(lei[k])
        warnings(i) ==
            {k \in 1..Len(stage_out.changes) :
                /\ stage_out.changes[k].type = "LEI_WARNING"
                /\ stage_out.changes[k].row = i + 1}
    IN  stage_op = "fix_lei_format" =>
            /\ \A i \in 1..Len(stage_file) :
                   (stage_file[i].ae_lei # <<>>
                    /\ strip(stage_file[i].ae_lei) = stage_file[i].ae_lei) =>
                       \/ valid(stage_out.df[i].ae_lei)
                       \/ /\ stage_out.df[i].ae_lei = stage_file[i].ae_lei
                          /\ Cardinality(warnings(i)) = 1
            /\ \A k \in 1..Len(stage_out.changes) :
                   stage_out.changes[k].type = "LEI_EXCEL_NOTATION_FIXED"
                       => Len(stage_out.changes[k].new_value) = 20

\* C15: after validate_service_codes, every row whose ac_serviceCode is not
\* blank is listed under the ERROR SERVICE_CODE_INVALID exactly when none of
\* its tokens (the parts between '|', ';' and ',', stripped) starts with a
\* letter a-j, under the WARNING SERVICE_CODE_SUSPICIOUS_FORMAT exactly when
\* one token starts with a letter a-j and another token, that does not, holds
\* a letter k-z, and never under both; letters count in either case.
C15_ServiceCodeIssues ==
    LET a_to_j == {"a", "b", "c", "d", "e", "f", "g", "h", "i", "j",
                   "A", "B", "C", "D", "E", "F", "G", "H", "I", "J"}
        separators(v) ==
            {0, Len(v) + 1} \cup {k \in 1..Len(v) : v[k] \in {"|", ";", ","}}
        tokens(v) ==
            {strip(SubSeq(v, e[1] + 1, e[2] - 1)) :
                e \in {p \in separators(v) \X separators(v) :
                          /\ p[1] < p[2]
                          /\ ~\E k \in separators(v) : p[1] < k /\ k < p[2]}}
            \ {<<>>}
        valid(token) == token[1] \in a_to_j
        outside(token) ==
            \E m \in 1..Len(token) : IsLetter(token[m]) /\ token[m] \notin a_to_j
        listed(severity, code, row_num) ==
            \E q \in 1..Len(stage_out) :
                /\ stage_out[q].severity = severity
                /\ stage_out[q].code = code
                /\ row_num \in Range(stage_out[q].rows)
        under(code, row_num) ==
            \E q \in 1..Len(stage_out) :
                stage_out[q].code = code /\ row_num \in Range(stage_out[q].rows)
    IN  stage_op = "validate_service_codes" =>
            \A i \in 1..Len(stage_file) :
                LET found == tokens(stage_file[i].ac_serviceCode)
                    invalid == under("SERVICE_CODE_INVALID", i + 1)
                    suspicious == under("SERVICE_CODE_SUSPICIOUS_FORMAT", i + 1)
                IN  IF strip(stage_file[i].ac_serviceCode) = <<>>
                    THEN ~invalid /\ ~suspicious
                    ELSE /\ invalid <=> ~\E t \in found : valid(t)
                         /\ invalid =>
                                listed("ERROR", "SERVICE_CODE_INVALID", i + 1)
                         /\ suspicious <=>
                                /\ \E t \in found : valid(t)
                                /\ \E t \in found : ~valid(t) /\ outside(t)
                         /\ suspicious =>
                                listed("WARNING",
                                       "SERVICE_CODE_SUSPICIOUS_FORMAT", i + 1)
                         /\ ~(invalid /\ suspicious)

\* "a. x|k. y" in row 2: one valid token and one that starts with k, and the
\* only issue is the WARNING, with that row
C15_Witness ==
    /\ stage_op = "validate_service_codes"
    /\ stage_file # <<>>
    /\ stage_file[1].ac_serviceCode
           = <<"a", ".", " ", "x", "|", "k", ".", " ", "y">>
    /\ Len(stage_out) = 1
    /\ stage_out[1].severity = "WARNING"
    /\ stage_out[1].code = "SERVICE_CODE_SUSPICIOUS_FORMAT"
    /\ 2 \in Range(stage_out[1].rows)

\* the normal form of a country-code value: its tokens (the parts between
\* '|', ';', ',' and whitespace) uppercased, GR added when EL is among them,
\* each once, sorted and joined by '|'; <<>> for a value without a token
C16_NormalForm(value) ==
    LET separator(c) == c \in {"|", ";", ","} \/ IsSpace(c)
        starts == {a \in 1..Len(value) :
                      /\ ~separator(value[a])
                      /\ a = 1 \/ separator(value[a - 1])}
        end(a) == CHOOSE b \in a..Len(value) :
                      /\ \A k \in a..b : ~separator(value[k])
                      /\ b = Len(value) \/ separator(value[b + 1])
        tokens == {upper(SubSeq(value, a, end(a))) : a \in starts}
        codes == tokens \cup (IF <<"E", "L">> \in tokens THEN {<<"G", "R">>}
                              ELSE {})
    IN  join(<<"|">>, sorted(codes))

C20_AddressWebsiteMerged ==
    stage_op = "fix_address_website_parsing" =>
        \A i \in 1..Len(stage_file) :
            LET address == strip(stage_file[i].ae_address)
                website == strip(stage_file[i].ae_website)
            IN  IF website # <<>> /\ ~is_url(website) /\ address # <<>>
                THEN /\ stage_out.df[i].ae_address
                            = address \o <<",", " ">> \o website
                     /\ stage_out.df[i].ae_website = <<>>
                ELSE /\ stage_out.df[i].ae_address = stage_file[i].ae_address
                     /\ stage_out.df[i].ae_website = stage_file[i].ae_website

\* C19: when the first proposal of a run is for a task whose identifier is
\* from_row(table[i], i) of the working table, and row i is determined by its
\* LEI alone, by (LEI, competent authority, service country) when other rows
\* share the LEI, or by its synthetic id when it has no LEI, then
\* find_row_by_identifier returns i: the proposal is not rejected with "Row
\* not found by identifier", no error is recorded and a write goes to row i;
\* and the identifier has a lei or a synthetic_id.
C19_IdentifierRoundTrip ==
    (n_proposals = 1 /\ task_map_has(cur_proposal.task_id)) =>
        LET task == task_map_get(cur_proposal.task_id)
            i == task.row_index
            id == task.row_identifier
            cell(j, col) == strip(str(row_get(df_before[j], col)))
            same_lei == {j \in DOMAIN df_before : cell(j, "ae_lei") = id.lei}
            same_key ==
                {j \in same_lei :
                    /\ cell(j, "ae_competentAuthority") = id.competent_authority
                    /\ cell(j, "ac_serviceCode_cou") = id.service_country}
            determined ==
                IF truthy(id.lei)
                THEN \/ same_lei = {i}
                     \/ /\ Cardinality(same_lei) > 1
                        /\ truthy(id.competent_authority)
                        /\ truthy(id.service_country)
                        /\ same_key = {i}
                ELSE id.synthetic_id # None
        IN  (/\ i \in DOMAIN df_before
             /\ id = from_row(df_before[i], i)
             /\ determined) =>
                /\ \A k \in 1..Len(rejected_changes) :
                       rejected_changes[k].reason
                           # <<"Row not found by identifier">>
                /\ errors = <<>>
                /\ \A k \in 1..Len(writes) : writes[k].row_index = i
                /\ id.lei # None \/ id.synthetic_id # None

\* C21: when the response to a generate_content call deviates from the
\* response contract (its text holds no JSON object, or the object lacks one
\* of proposed_value, confidence, reasoning, transformation_type and
\* risk_level, or names a transformation type or a risk level outside the
\* enums), the call adds no proposal: the task is skipped.
C21_DeviationSkipsTask ==
    LET objects == {last_response.text[k].data :
                       k \in {j \in 1..Len(last_response.text) :
                                 last_response.text[j].t = "json"}}
        fields == {"proposed_value", "confidence", "reasoning",
                   "transformation_type", "risk_level"}
        deviates ==
            \/ objects = {}
            \/ \E data \in objects :
                   \/ ~(fields \subseteq DOMAIN data)
                   \/ data.transformation_type \notin TransformationType
                   \/ data.risk_level \notin RiskLevel
    IN  (last_response.kind = "text" /\ deviates) =>
            /\ ~calls[Len(calls)].ok
            /\ \A i \in 1..Len(proposals) :
                   proposals[i].task_id
                       # llm_tasks[calls[Len(calls)].task].task_id

\* C26: in the patch generate_patch returns, the proposals are those of the
\* successful calls to the model named in model_name and of no other model,
\* one for each such call, so at most one for a task and in the order of the
\* tasks; and metadata.tasks_total is the number of tasks given.
C26_OneModelOneProposal ==
    llm_pc = "returned" =>
        LET ok == SelectSeq(calls, LAMBDA c : c.ok)
        IN  /\ \A k \in 1..Len(ok) : ok[k].model = llm_patch.model_name
            /\ Len(llm_patch.tasks) = Len(ok)
            /\ \A k \in 1..Len(ok) :
                   llm_patch.tasks[k].task_id = llm_tasks[ok[k].task].task_id
            /\ \A k \in 1..(Len(ok) - 1) : ok[k].task < ok[k + 1].task
            /\ Len(llm_patch.tasks) <= Len(llm_tasks)
            /\ llm_patch.metadata.tasks_total = Len(llm_tasks)

\* the first model failed on every task and the second produced a proposal
\* for each of two tasks
C26_Witness ==
    /\ llm_pc = "returned"
    /\ Len(llm_tasks) = 2
    /\ Len(llm_patch.tasks) = 2
    /\ llm_patch.model_name = GEMINI_MODELS[2]
    /\ \E k \in 1..Len(calls) : calls[k].model = GEMINI_MODELS[1]

\* C25: every write of apply_patch_with_tasks goes to a cell that still holds
\* the value captured in the task's current_value when the task was
\* generated (both compared as stripped text): a proposal is not applied to
\* a cell that an earlier proposal or another edit has changed since.
C25_NoClobber ==
    \A k \in 1..Len(writes) :
        stripped_cell(writes[k].before)
            = task_map_get(writes[k].proposal.task_id).current_value

\* C29: every write of apply_patch_with_tasks goes to the row its task was
\* generated from, whatever proposals were applied before it.
C29_WritesTaskRow ==
    \A k \in 1..Len(writes) : writes[k].row_index = writes[k].task_row

\* C23: after fix_all_issues every cell that differs from the cell loaded has
\* a Change for its row and column, and every Change other than the warnings
\* (DATE_WARNING, LEI_WARNING, ENCODING_DATA_LOSS_WARNING) was recorded by a
\* fixer that left in the cell a value different from the one it found.
C23_ChangeLogExact ==
    clean_pc = "fixed" =>
        LET stages == fix_all_stages([df |-> csv_file, changes |-> <<>>])
            warning_types ==
                {"DATE_WARNING", "LEI_WARNING", "ENCODING_DATA_LOSS_WARNING"}
            \* the changes the fixer of stage s + 1 recorded
            recorded(s) ==
                {stages[s + 1].changes[k] :
                    k \in (Len(stages[s].changes) + 1)
                              ..Len(stages[s + 1].changes)}
        IN  /\ \A i \in 1..Len(csv_file) : \A c \in DOMAIN csv_file[i] :
                   cleaner_df[1][i][c] # csv_file[i][c] =>
                       \E k \in 1..Len(cleaner_changes) :
                           /\ cleaner_changes[k].row = i + 1
                           /\ cleaner_changes[k].column = c
            /\ \A s \in 1..(Len(stages) - 1) : \A ch \in recorded(s) :
                   ch.type \notin warning_types =>
                       stages[s + 1].df[ch.row - 1][ch.column]
                           # stages[s].df[ch.row - 1][ch.column]

\* a cell differs from the cell loaded, and both a warning and a Change of
\* another type have been recorded
C23_Witness ==
    /\ clean_pc = "fixed"
    /\ \E i \in 1..Len(csv_file) : \E c \in DOMAIN csv_file[i] :
           cleaner_df[1][i][c] # csv_file[i][c]
    /\ \E k \in 1..Len(cleaner_changes) :
           cleaner_changes[k].type = "DATE_FIXED"
    /\ \E k \in 1..Len(cleaner_changes) :
           cleaner_changes[k].type \in {"DATE_WARNING", "LEI_WARNING"}

\* C24: after fix_all_issues, a website cell that was loaded as two or more
\* URLs separated by line breaks holds those URLs, each once and each with a
\* scheme (https:// put before one that has none), joined by '|', and a
\* MULTILINE_WEBSITE_FIXED change is recorded for the cell.
C24_MultilineWebsiteJoined ==
    clean_pc = "fixed" =>
        \A i \in 1..Len(csv_file) :
            LET loaded == csv_file[i].ae_website
                lines == non_empty(re_split(loaded,
                                            LAMBDA c : c \in {"NL", "CR"}))
                with_scheme(url) ==
                    IF \/ startswith(url, <<"h", "t", "t", "p", ":", "/", "/">>)
                       \/ startswith(url, <<"h", "t", "t", "p", "s", ":", "/",
                                             "/">>)
                    THEN url
                    ELSE <<"h", "t", "t", "p", "s", ":", "/", "/">> \o url
                urls == dedup([k \in 1..Len(lines) |-> with_scheme(lines[k])])
            IN  (/\ Len(lines) >= 2
                 /\ \A k \in 1..Len(lines) :
                        is_url(lines[k]) /\ strip(lines[k]) = lines[k]) =>
                    /\ cleaner_df[1][i].ae_website = join(<<"|">>, urls)
                    /\ \E k \in 1..Len(cleaner_changes) :
                           /\ cleaner_changes[k].type
                                  = "MULTILINE_WEBSITE_FIXED"
                           /\ cleaner_changes[k].row = i + 1
                           /\ cleaner_changes[k].column = "ae_website"

\* C30: normalize_service_codes and extract_service_codes agree: after the
\* fixer, the codes the cleaned ac_serviceCode cell renders (one "x. label"
\* per '|' part) are as a set the valid codes that extract_service_codes
\* finds in the value the file held, so no code the validator accepts is lost.
C30_ServiceCodesAgree ==
    stage_op = "normalize_service_codes" =>
        \A i \in 1..Len(stage_file) :
            LET raw == stage_file[i].ac_serviceCode
                cleaned == parse_pipe_separated(stage_out.df[i].ac_serviceCode)
                rendered ==
                    {normalize_service_code(cleaned[k]) :
                         k \in 1..Len(cleaned)} \ {None}
                accepted == extract_service_codes(raw).valid_codes
            IN  rendered = {accepted[k] : k \in 1..Len(accepted)}

\* C28: every change the cleaner has recorded, by whichever fixer and the
\* warnings included, holds an old_value and a new_value of at most 100
\* characters each.
C28_ChangeValuesCapped ==
    /\ \A k \in 1..Len(cleaner_changes) :
           /\ Len(cleaner_changes[k].old_value) <= 100
           /\ Len(cleaner_changes[k].new_value) <= 100
    /\ stage_op \in {"fix_dates", "fix_lei_format", "normalize_country_codes",
                     "normalize_country_codes_twice",
                     "fix_address_website_parsing",
                     "normalize_service_codes"} =>
           \A k \in 1..Len(stage_out.changes) :
               /\ Len(stage_out.changes[k].old_value) <= 100
               /\ Len(stage_out.changes[k].new_value) <= 100

\* C22: for every register type, validate_schema reports SCHEMA_MISSING_COLUMN,
\* as an ERROR, exactly when the header lacks a column of the required_columns
\* of that register's configuration; a header holding all of them gets no
\* SCHEMA_MISSING_COLUMN issue.
C22_SchemaFollowsRegister ==
    stage_op = "validate_schema" =>
        LET required == REGISTERS[stage_out.register].required_columns
            lacking ==
                \E k \in 1..Len(required) :
                    required[k] \notin Range(stage_out.header)
            reported ==
                \E q \in 1..Len(stage_out.issues) :
                    stage_out.issues[q].code = "SCHEMA_MISSING_COLUMN"
        IN  /\ reported <=> lacking
            /\ \A q \in 1..Len(stage_out.issues) :
                   stage_out.issues[q].code = "SCHEMA_MISSING_COLUMN"
                       => stage_out.issues[q].severity = "ERROR"

\* C27: in the report of a check, the row list of every issue is the row list
\* the check found (only the examples are cut at max_examples); the row list
\* of ENCODING_SUSPECT is, in ascending order, every row with a cell holding
\* the replacement character or a mis-decoding marker, and the row list of
\* LEI_DUPLICATE is, in ascending order, every row whose LEI another row has.
C27_RowListsComplete ==
    stage_op = "report" =>
        LET rows == stage_file
            row_nums == [i \in 1..Len(rows) |-> i + 1]
            suspect(row_num) ==
                \E c \in Range(df_header) :
                    LET value == rows[row_num - 1][c]
                    IN  \/ has_replacement(value)
                        \/ contains(value, <<"A~">>)
                        \/ contains(value, <<"A^">>)
            shared_lei(row_num) ==
                /\ strip(rows[row_num - 1].ae_lei) # <<>>
                /\ \E j \in 1..Len(rows) :
                       /\ j # row_num - 1
                       /\ strip(rows[j].ae_lei) = strip(rows[row_num - 1].ae_lei)
            listed(code, affected) ==
                IF affected = <<>>
                THEN \A k \in 1..Len(stage_out.issues) :
                         stage_out.issues[k].code # code
                ELSE \E k \in 1..Len(stage_out.issues) :
                         /\ stage_out.issues[k].code = code
                         /\ stage_out.issues[k].rows = affected
        IN  /\ \A k \in 1..Len(stage_out.issues) :
                   stage_out.issues[k].rows = stage_out.found[k].rows
            /\ stage_out.check = "validate_encoding" =>
                   listed("ENCODING_SUSPECT",
                          SelectSeq(row_nums, LAMBDA n : suspect(n)))
            /\ stage_out.check = "validate_duplicate_lei" =>
                   listed("LEI_DUPLICATE",
                          SelectSeq(row_nums, LAMBDA n : shared_lei(n)))

====
